---- MODULE Spec2Model ----
(***************************************************************************)
(* PlugBotBase: the event dispatcher (src/plug.js, kept in                 *)
(* src/src/config.js lines 1055-1400), the state tracker                   *)
(* (src/src/state_tracker.js), the translator (src/src/translator.js) and  *)
(* the startup sequence of main.js (kept in src/unnamed/part_003 lines     *)
(* 1-235).                                                                 *)
(*                                                                         *)
(* The upstream client (PlugAPI) is the environment: its room is the up*   *)
(* variables, and every live event changes the upstream room and is handed *)
(* in the same step to the dispatcher the Bot constructor registered.      *)
(* JavaScript is single threaded, so one dispatch, one timer callback and  *)
(* one history callback are each one atomic action.                        *)
(***************************************************************************)
EXTENDS Integers, Sequences, FiniteSets, TLC

(* ---------------------------- bounds ----------------------------------- *)

\* plays the upstream room starts while the model runs
MaxPlays == 2
\* records the historical query returns
MaxHistory == 1
\* chat messages received
MaxChats == 5
\* outbound actions a plugin requests
MaxRequests == 2
\* entries of the djs list of a raw advance payload
MaxDjs == 2
MaxLongHistory == 2
MaxCommands == 2
MaxListeners == 3
\* chat messages in the runs that mix the events of every kind
MaxFrameChats == 1

\* the userIDs of the users the model's room sees
UserIDs == {1, 2}

VARIABLES
    phase,          \* position of start(): "waiting" (timer pending), "querying"
                    \* (init ran, getHistory pending), "synced" (history callback
                    \* returned), "crashed" (history callback threw)
    eventHandlers,  \* Bot.eventHandlers: event kind -> sequence of listeners
    roomState,      \* globalObject.roomState
    completeCount,  \* times StateTracker.init's onComplete has fired
    last,           \* the most recent dispatch: its kind, the phase it came in,
                    \* the listeners invoked in order, whether one threw,
                    \* whether usersInRoom or usersInWaitList changed
    upUsers,        \* upstream room: userIDs present (getUsers)
    upDJ,           \* upstream room: current DJ's userID, 0 for none (getDJ)
    upWaitList,     \* upstream room: wait list without the DJ (getWaitList)
    upMedia,        \* upstream room: play in progress, 0 for none (getMedia)
    upPlayCount,    \* plays started so far
    upVotes,        \* upstream room: userID -> 1, -1 or 0 (user.vote)
    upGrabs,        \* upstream room: userIDs who grabbed (user.grab)
    nextChatID,     \* chat IDs handed out so far
    translation,    \* the most recent call of a translator on a raw payload that
                    \* may lack fields: the kind, the payload and how it ended
    requests,       \* outbound actions requested of the Bot, oldest first: what
                    \* was called, whether with a callback, what the upstream
                    \* client answered and the calls of the callback so far
    commands,       \* the command modules _registerCommands found, in its order
    areCommandsCaseSensitive,   \* config.PlugBotBase.areCommandsCaseSensitive
    commandCalls,   \* the most recent command event the router handled and the
                    \* callbacks of command modules it called, in order
    registration,   \* the most recent call of Bot.on by a plugin: its
                    \* arguments, whether it threw and what it logged
    onComplete      \* the onComplete argument StateTracker.init is called with

vars == <<phase, eventHandlers, roomState, completeCount, last, upUsers, upDJ,
          upWaitList, upMedia, upPlayCount, upVotes, upGrabs, nextChatID,
          requests, translation, commands, areCommandsCaseSensitive,
          commandCalls, registration, onComplete>>

upVars == <<upUsers, upDJ, upWaitList, upMedia, upPlayCount, upVotes, upGrabs>>

\* what the events of the room leave alone
auxVars == <<requests, translation, commands, areCommandsCaseSensitive,
             commandCalls, registration, onComplete>>

\* what neither the outbound actions nor the translators of raw payloads touch
routerVars == <<commands, areCommandsCaseSensitive, commandCalls, registration,
                onComplete>>

(* ---------------------------- values ----------------------------------- *)

\* types.js Event: the kinds the model delivers
ADVANCE == "advance"
CHAT == "chat"
CHAT_COMMAND == "command"
CHAT_DELETE == "chatDelete"
DJ_LIST_UPDATE == "djListUpdate"
GRAB == "grab"
MODERATE_REMOVE_DJ == "modRemoveDJ"
USER_JOIN == "userJoin"
USER_LEAVE == "userLeave"
USER_UPDATE == "userUpdate"
VOTE == "vote"

Event == {ADVANCE, CHAT, CHAT_COMMAND, CHAT_DELETE, DJ_LIST_UPDATE, GRAB,
          MODERATE_REMOVE_DJ, USER_JOIN, USER_LEAVE, USER_UPDATE, VOTE}

\* the kinds StateTracker.init subscribes to, in the order of its bot.on calls
TrackedKinds == <<ADVANCE, CHAT, CHAT_DELETE, DJ_LIST_UPDATE, GRAB,
                  MODERATE_REMOVE_DJ, USER_LEAVE, USER_JOIN, VOTE>>

Range(s) == {s[i] : i \in 1..Len(s)}

\* listeners: the state tracker's handler of a kind, a plugin module's listener,
\* and the command router main.js hooks into CHAT_COMMAND
TRACKER == "tracker"
PLUGIN == "plugin"
ROUTER == "router"

\* JavaScript undefined as an argument, and a function as an argument
UNDEFINED == "undefined"
FUNCTION == "function"

\* a value that is not a function, handed to Bot.on as the callback
NOT_A_FUNCTION == "notAFunction"

\* JavaScript null where a User is expected
NullUser == [userID |-> 0, username |-> 0]

Username(id) == 100 + id

\* an upstream user object as PlugAPI hands it over
RawUser(id) == [id |-> id, username |-> Username(id)]

\* votes: null of a history entry
NullVotes == [isNull |-> TRUE, grabs |-> <<>>, mehs |-> <<>>, woots |-> <<>>]
EmptyVotes == [isNull |-> FALSE, grabs |-> <<>>, mehs |-> <<>>, woots |-> <<>>]

\* sequences without repetition over S
DistinctSeqs(S) ==
    {s \in UNION {[1..n -> S] : n \in 0..Cardinality(S)} :
        \A i, j \in 1..Len(s) : i # j => s[i] # s[j]}

\* JavaScript Array.prototype.indexOf, 1-based, 0 for -1
IndexOf(s, x) ==
    IF \E i \in 1..Len(s) : s[i] = x
    THEN CHOOSE i \in 1..Len(s) : s[i] = x /\ \A j \in 1..(i - 1) : s[j] # x
    ELSE 0

\* JavaScript splice(i, 1)
Splice1(s, i) == [k \in 1..(Len(s) - 1) |-> IF k < i THEN s[k] ELSE s[k + 1]]

\* the set S in ascending order
RECURSIVE Ascending(_)
Ascending(S) ==
    IF S = {} THEN <<>>
    ELSE LET m == CHOOSE x \in S : \A y \in S : x <= y
         IN <<m>> \o Ascending(S \ {m})

\* a JavaScript array as a value of usersInWaitList
Array(elems) == [isArray |-> TRUE, elems |-> elems, userIDs |-> <<>>]

(* ---------------------------- translator -------------------------------- *)

\* a raw event the translator suppresses
NullEvent == [suppressed |-> TRUE]

\* the plug.dj date string of the instant a play began, as the seconds from the
\* model's epoch to it
PlayStartTime(media) == media

\* Date.parse of a well-formed date string: milliseconds
translateDateString(string) == 1000 * string

translateUserObject(plugapiDj) ==
    IF plugapiDj.id = 0 THEN NullUser
    ELSE [userID |-> plugapiDj.id, username |-> plugapiDj.username]

RECURSIVE translateUsers(_)
translateUsers(raws) ==
    IF raws = <<>> THEN <<>>
    ELSE <<translateUserObject(Head(raws))>> \o translateUsers(Tail(raws))

\* translateAdvanceEvent without its test for an event with no performer or media
translateAdvanceEvent_NoNullCheck(event) ==
    [incomingDJ |-> translateUserObject(event.currentDJ),
     media |-> event.media,
     startDate |-> translateDateString(event.startTime),
     waitlistedDJs |-> translateUsers(event.djs)]

translateAdvanceEvent(event) ==
    IF event.currentDJ.id = 0 \/ event.media = 0 THEN NullEvent
    ELSE [incomingDJ |-> translateUserObject(event.currentDJ),
          media |-> event.media,
          startDate |-> translateDateString(event.startTime),
          waitlistedDJs |-> translateUsers(event.djs)]

translateChatEvent(event) ==
    [chatID |-> event.raw.cid, userID |-> event.from.id,
     username |-> event.from.username]

translateChatDeleteEvent(event) == [chatID |-> event.c, modUserID |-> event.mi]

translateDjListUpdateEvent(event) == [userIDs |-> event]

translateGrabEvent(event) == [userID |-> event]

translateModRemoveDjEvent(event) ==
    [modUsername |-> event.m, modUserID |-> event.mi, removedUsername |-> event.t]

translateUserJoinEvent(event) == translateUserObject(event)

translateUserLeaveEvent(event) == translateUserObject(event)

translateUserUpdateEvent(event) == translateUserObject(event)

translateVoteEvent(event) == [userID |-> event.i, vote |-> event.v]

\* types.js Role, exported as UserRole
Role ==
    [NONE |-> [name |-> "none", level |-> 0],
     RESIDENT_DJ |-> [name |-> "residentDj", level |-> 1],
     BOUNCER |-> [name |-> "bouncer", level |-> 2],
     MANAGER |-> [name |-> "manager", level |-> 3],
     COHOST |-> [name |-> "cohost", level |-> 4],
     HOST |-> [name |-> "host", level |-> 5]]

\* translateRole that takes every unknown number for a host
translateRole_DefaultsToHost(roleAsInt) ==
    CASE roleAsInt = 0 -> Role.NONE
      [] roleAsInt = 1 -> Role.RESIDENT_DJ
      [] roleAsInt = 2 -> Role.BOUNCER
      [] roleAsInt = 3 -> Role.MANAGER
      [] roleAsInt = 4 -> Role.COHOST
      [] OTHER -> Role.HOST

\* the UserRole a plug.dj role number stands for; any other value becomes NONE
translateRole(roleAsInt) ==
    CASE roleAsInt = 0 -> Role.NONE
      [] roleAsInt = 1 -> Role.RESIDENT_DJ
      [] roleAsInt = 2 -> Role.BOUNCER
      [] roleAsInt = 3 -> Role.MANAGER
      [] roleAsInt = 4 -> Role.COHOST
      [] roleAsInt = 5 -> Role.HOST
      [] OTHER -> Role.NONE

\* the levels of the messages translateRole logs: LOG.error in its default branch
translateRoleLogs(roleAsInt) == IF roleAsInt \in 0..5 THEN <<>> ELSE <<"error">>

translateCommandEvent(event) ==
    [command |-> event.command, userID |-> event.from.id,
     username |-> event.from.username,
     userRole |-> translateRole(event.from.role)]

\* plug.js _eventTranslatorMap
Translate(kind, event) ==
    CASE kind = ADVANCE -> translateAdvanceEvent(event)
      [] kind = CHAT -> translateChatEvent(event)
      [] kind = CHAT_COMMAND -> translateCommandEvent(event)
      [] kind = CHAT_DELETE -> translateChatDeleteEvent(event)
      [] kind = DJ_LIST_UPDATE -> translateDjListUpdateEvent(event)
      [] kind = GRAB -> translateGrabEvent(event)
      [] kind = MODERATE_REMOVE_DJ -> translateModRemoveDjEvent(event)
      [] kind = USER_JOIN -> translateUserJoinEvent(event)
      [] kind = USER_LEAVE -> translateUserLeaveEvent(event)
      [] kind = USER_UPDATE -> translateUserUpdateEvent(event)
      [] kind = VOTE -> translateVoteEvent(event)

(* ---------------------------- state tracker ----------------------------- *)

\* what a handler leaves behind: the room state, and whether it threw
Returned(rs) == [rs |-> rs, threw |-> FALSE]
Threw(rs) == [rs |-> rs, threw |-> TRUE]

\* _findUserIndex: 1-based index, 0 for -1; threw when users[i] is null before a
\* match is found. An object that is no array has no length: the loop does not run.
RECURSIVE FindFrom(_, _, _)
FindFrom(elems, i, userID) ==
    IF i > Len(elems) THEN [index |-> 0, threw |-> FALSE]
    ELSE IF elems[i] = NullUser THEN [index |-> 0, threw |-> TRUE]
    ELSE IF elems[i].userID = userID THEN [index |-> i, threw |-> FALSE]
    ELSE FindFrom(elems, i + 1, userID)

_findUserIndex(users, userID) == FindFrom(users, 1, userID)

\* _removeUser on an array's elements: [elems, threw]
_removeUser(users, userID) ==
    LET found == _findUserIndex(users, userID)
    IN  IF found.threw THEN [elems |-> users, threw |-> TRUE]
        ELSE IF found.index > 0
             THEN [elems |-> Splice1(users, found.index), threw |-> FALSE]
             ELSE [elems |-> users, threw |-> FALSE]

\* onAdvance with push in place of unshift: the new play goes to the back
onAdvance_Push(event, rs) ==
    LET play == [media |-> event.media, startDate |-> event.startDate,
                 user |-> event.incomingDJ,
                 votes |-> EmptyVotes, score |-> FALSE]
    IN  Returned([rs EXCEPT !.usersInWaitList = Array(event.waitlistedDJs),
                            !.playHistory = @ \o <<play>>])

\* onAdvance without its assignment to usersInWaitList
onAdvance_KeepsWaitList(event, rs) ==
    LET play == [media |-> event.media, startDate |-> event.startDate,
                 user |-> event.incomingDJ,
                 votes |-> EmptyVotes, score |-> FALSE]
    IN  Returned([rs EXCEPT !.playHistory = <<play>> \o @])

onAdvance(event, rs) ==
    LET play == [media |-> event.media, startDate |-> event.startDate,
                 user |-> event.incomingDJ,
                 votes |-> EmptyVotes, score |-> FALSE]
    IN  Returned([rs EXCEPT !.usersInWaitList = Array(event.waitlistedDJs),
                            !.playHistory = <<play>> \o @])

\* onChat with push in place of unshift: the new entry goes to the back
onChat_Push(event, rs) ==
    LET chatObj == [chatID |-> event.chatID, userID |-> event.userID,
                    username |-> event.username,
                    isDeleted |-> FALSE, deletedByUserID |-> 0]
    IN  Returned([rs EXCEPT !.chatHistory = Append(@, chatObj)])

onChat(event, rs) ==
    LET chatObj == [chatID |-> event.chatID, userID |-> event.userID,
                    username |-> event.username,
                    isDeleted |-> FALSE, deletedByUserID |-> 0]
    IN  Returned([rs EXCEPT !.chatHistory = <<chatObj>> \o @])

\* the second loop of onChatDelete, from index i on
RECURSIVE CascadeFrom(_, _, _, _)
CascadeFrom(history, i, deletedMessageUserID, modUserID) ==
    IF i > Len(history) THEN history
    ELSE IF history[i].userID = deletedMessageUserID /\ ~history[i].isDeleted
    THEN CascadeFrom([history EXCEPT ![i].isDeleted = TRUE,
                                     ![i].deletedByUserID = modUserID],
                     i + 1, deletedMessageUserID, modUserID)
    ELSE history

\* onChatDelete flipping isDeleted of the named message in place of setting it
onChatDelete_Toggle(event, rs) ==
    LET history == rs.chatHistory
    IN  Returned([rs EXCEPT !.chatHistory =
            [i \in 1..Len(history) |->
                IF history[i].chatID = event.chatID
                THEN [history[i] EXCEPT !.isDeleted = ~@,
                                        !.deletedByUserID = event.modUserID]
                ELSE history[i]]])

\* onChatDelete without its second loop: only the named message is marked
onChatDelete_TargetOnly(event, rs) ==
    LET history == rs.chatHistory
    IN  Returned([rs EXCEPT !.chatHistory =
            [i \in 1..Len(history) |->
                IF history[i].chatID = event.chatID
                THEN [history[i] EXCEPT !.isDeleted = TRUE,
                                        !.deletedByUserID = event.modUserID]
                ELSE history[i]]])

onChatDelete(event, rs) ==
    LET history == rs.chatHistory
        deletedMessageIndex ==
            IF \E i \in 1..Len(history) : history[i].chatID = event.chatID
            THEN CHOOSE i \in 1..Len(history) :
                    /\ history[i].chatID = event.chatID
                    /\ \A j \in 1..(i - 1) : history[j].chatID # event.chatID
            ELSE 0
    IN  IF deletedMessageIndex = 0 THEN Returned(rs)
        ELSE LET marked == [history EXCEPT
                                ![deletedMessageIndex].isDeleted = TRUE,
                                ![deletedMessageIndex].deletedByUserID = event.modUserID]
             IN Returned([rs EXCEPT !.chatHistory =
                    CascadeFrom(marked, deletedMessageIndex + 1,
                                history[deletedMessageIndex].userID, event.modUserID)])

\* usersInWaitList becomes the translated event object itself
\* the levels of the messages onChatDelete logs: its body has no call of LOG,
\* whether or not the chat ID is found
onChatDeleteLogs(event, rs) == <<>>

onDjListUpdate(event, rs) ==
    Returned([rs EXCEPT !.usersInWaitList =
                  [isArray |-> FALSE, elems |-> <<>>, userIDs |-> event.userIDs]])

\* playHistory[0].votes can be read: there is an entry and its votes are not null
HasCurrentVotes(rs) ==
    /\ rs.playHistory # <<>>
    /\ ~rs.playHistory[1].votes.isNull

\* onGrab without its indexOf test
onGrab_PushAlways(event, rs) ==
    IF ~HasCurrentVotes(rs) THEN Threw(rs)
    ELSE Returned([rs EXCEPT !.playHistory[1].votes.grabs = Append(@, event.userID)])

onGrab(event, rs) ==
    IF ~HasCurrentVotes(rs) THEN Threw(rs)
    ELSE IF IndexOf(rs.playHistory[1].votes.grabs, event.userID) = 0
    THEN Returned([rs EXCEPT !.playHistory[1].votes.grabs = Append(@, event.userID)])
    ELSE Returned(rs)

\* the properties start() gives globalObject; init adds roomState
GlobalObjectKeys == {"config", "bot", "roomState"}

\* the loop of onModerateRemoveDj over an array's elements
RECURSIVE RemoveByUsername(_, _, _)
RemoveByUsername(elems, i, event) ==
    IF i > Len(elems) THEN elems
    ELSE IF "username" \in DOMAIN event /\ elems[i].username = event.username
    THEN Splice1(elems, i)
    ELSE RemoveByUsername(elems, i + 1, event)

\* reads globalObject.state, which nothing defines
onModerateRemoveDj(event, rs) ==
    IF "state" \notin GlobalObjectKeys THEN Threw(rs)
    ELSE Returned([rs EXCEPT !.usersInWaitList.elems = RemoveByUsername(@, 1, event)])

onUserLeave(event, rs) ==
    LET room == _removeUser(rs.usersInRoom, event.userID)
        afterRoom == [rs EXCEPT !.usersInRoom = room.elems]
        wait == _removeUser(rs.usersInWaitList.elems, event.userID)
    IN  IF room.threw THEN Threw(rs)
        ELSE IF wait.threw THEN Threw(afterRoom)
        ELSE Returned([afterRoom EXCEPT !.usersInWaitList.elems = wait.elems])

\* onUserJoin without its test for an existing user
onUserJoin_PushAlways(event, rs) ==
    Returned([rs EXCEPT !.usersInRoom = Append(@, event)])

onUserJoin(event, rs) ==
    LET found == _findUserIndex(rs.usersInRoom, event.userID)
    IN  IF found.threw THEN Threw(rs)
        ELSE IF found.index > 0 THEN Returned(rs)
        ELSE Returned([rs EXCEPT !.usersInRoom = Append(@, event)])

\* splice(indexOf(userID), 1) when present
RemoveFirst(s, x) == IF IndexOf(s, x) > 0 THEN Splice1(s, IndexOf(s, x)) ELSE s

\* onVote without the removal from the other list
onVote_KeepsOtherVote(event, rs) ==
    IF ~HasCurrentVotes(rs) THEN Threw(rs)
    ELSE LET votes == rs.playHistory[1].votes
         IN  Returned([rs EXCEPT
                !.playHistory[1].votes.woots =
                    IF event.vote = 1
                    THEN Append(RemoveFirst(votes.woots, event.userID), event.userID)
                    ELSE @,
                !.playHistory[1].votes.mehs =
                    IF event.vote = -1
                    THEN Append(RemoveFirst(votes.mehs, event.userID), event.userID)
                    ELSE @])

\* onVote recording the vote on every play that has vote lists
onVote_EveryPlay(event, rs) ==
    IF ~HasCurrentVotes(rs) THEN Threw(rs)
    ELSE Returned([rs EXCEPT !.playHistory =
            [i \in 1..Len(@) |->
                IF @[i].votes.isNull THEN @[i]
                ELSE [@[i] EXCEPT
                        !.votes.woots =
                            IF event.vote = 1
                            THEN Append(RemoveFirst(@, event.userID), event.userID)
                            ELSE RemoveFirst(@, event.userID),
                        !.votes.mehs =
                            IF event.vote = -1
                            THEN Append(RemoveFirst(@, event.userID), event.userID)
                            ELSE RemoveFirst(@, event.userID)]]])

onVote(event, rs) ==
    IF ~HasCurrentVotes(rs) THEN Threw(rs)
    ELSE LET votes == rs.playHistory[1].votes
             woots == RemoveFirst(votes.woots, event.userID)
             mehs == RemoveFirst(votes.mehs, event.userID)
         IN  Returned([rs EXCEPT
                !.playHistory[1].votes.woots =
                    IF event.vote = 1 THEN Append(woots, event.userID) ELSE woots,
                !.playHistory[1].votes.mehs =
                    IF event.vote = -1 THEN Append(mehs, event.userID) ELSE mehs])

\* the handler init registers for each kind
TrackerHandler(kind, event, rs) ==
    CASE kind = ADVANCE -> onAdvance(event, rs)
      [] kind = CHAT -> onChat(event, rs)
      [] kind = CHAT_DELETE -> onChatDelete(event, rs)
      [] kind = DJ_LIST_UPDATE -> onDjListUpdate(event, rs)
      [] kind = GRAB -> onGrab(event, rs)
      [] kind = MODERATE_REMOVE_DJ -> onModerateRemoveDj(event, rs)
      [] kind = USER_LEAVE -> onUserLeave(event, rs)
      [] kind = USER_JOIN -> onUserJoin(event, rs)
      [] kind = VOTE -> onVote(event, rs)

(* ---------------------------- dispatcher -------------------------------- *)

\* Bot.prototype.on with unshift in place of push: the newest listener goes first
on_Unshift(handlers, eventName, callback) ==
    IF eventName \notin DOMAIN handlers THEN handlers
    ELSE [handlers EXCEPT ![eventName] = <<callback>> \o @]

\* Bot.prototype.on: an unknown event name is logged and ignored
on(handlers, eventName, callback) ==
    IF eventName \notin DOMAIN handlers THEN handlers
    ELSE [handlers EXCEPT ![eventName] = Append(@, callback)]

\* eventHandlers is a plain object: a name it has no own entry for, but which
\* Object.prototype has, reads as an inherited function
ObjectPrototypeKeys == {"toString", "constructor", "hasOwnProperty", "valueOf"}

\* Bot.prototype.on throws when what it reads has no push: the inherited value
onThrows(handlers, eventName) ==
    eventName \notin DOMAIN handlers /\ eventName \in ObjectPrototypeKeys

\* the levels of the messages Bot.prototype.on logs
onLogs(handlers, eventName) ==
    IF eventName \notin DOMAIN handlers /\ eventName \notin ObjectPrototypeKeys
    THEN <<"error">> ELSE <<>>

\* the loop of the dispatcher with a try/catch around each call: a throw is
\* swallowed and the loop goes on with the next listener
RECURSIVE RunHandlers_CatchAndContinue(_, _, _, _, _, _)
RunHandlers_CatchAndContinue(handlers, i, kind, internalObject, rs, invoked) ==
    IF i > Len(handlers) THEN [rs |-> rs, invoked |-> invoked, threw |-> FALSE]
    ELSE IF handlers[i] = NOT_A_FUNCTION
    THEN RunHandlers_CatchAndContinue(handlers, i + 1, kind, internalObject, rs, invoked)
    ELSE IF handlers[i] = TRACKER
    THEN RunHandlers_CatchAndContinue(handlers, i + 1, kind, internalObject,
                                      TrackerHandler(kind, internalObject, rs).rs,
                                      Append(invoked, TRACKER))
    ELSE RunHandlers_CatchAndContinue(handlers, i + 1, kind, internalObject, rs,
                                      Append(invoked, handlers[i]))

\* the loop of the dispatcher from handlers[i] on. The tracker's handlers change
\* the room state and may throw; a throw leaves the loop and the dispatcher.
RECURSIVE RunHandlers(_, _, _, _, _, _)
RunHandlers(handlers, i, kind, internalObject, rs, invoked) ==
    IF i > Len(handlers) THEN [rs |-> rs, invoked |-> invoked, threw |-> FALSE]
    ELSE IF handlers[i] = NOT_A_FUNCTION
    THEN \* handlers[i].callback.call is not a function
         [rs |-> rs, invoked |-> invoked, threw |-> TRUE]
    ELSE IF handlers[i] = TRACKER
    THEN LET r == TrackerHandler(kind, internalObject, rs)
         IN  IF r.threw
             THEN [rs |-> r.rs, invoked |-> Append(invoked, TRACKER), threw |-> TRUE]
             ELSE RunHandlers(handlers, i + 1, kind, internalObject, r.rs,
                              Append(invoked, TRACKER))
    ELSE RunHandlers(handlers, i + 1, kind, internalObject, rs,
                     Append(invoked, handlers[i]))

\* the function _createEventDispatcher returns for internalEventName
_createEventDispatcher(internalEventName, event, allHandlers, rs) ==
    LET internalObject == Translate(internalEventName, event)
    IN  IF internalObject = NullEvent
        THEN [rs |-> rs, invoked |-> <<>>, threw |-> FALSE, event |-> NullEvent]
        ELSE LET r == RunHandlers(allHandlers[internalEventName], 1,
                                  internalEventName, internalObject, rs, <<>>)
             IN  [rs |-> r.rs, invoked |-> r.invoked, threw |-> r.threw,
                  event |-> internalObject]

\* a raw event of PlugAPI reaches the dispatcher registered for its kind
Deliver(kind, event) ==
    LET d == _createEventDispatcher(kind, event, eventHandlers, roomState)
    IN  /\ roomState' = d.rs
        /\ last' = [kind |-> kind, phase |-> phase, invoked |-> d.invoked,
                    threw |-> d.threw,
                    changedUsers |->
                        \/ d.rs.usersInRoom # roomState.usersInRoom
                        \/ d.rs.usersInWaitList # roomState.usersInWaitList]
        /\ UNCHANGED <<phase, eventHandlers, completeCount, auxVars>>

(* ---------------------------- startup ----------------------------------- *)

EmptyRoomState ==
    [chatHistory |-> <<>>, playHistory |-> <<>>, usersInRoom |-> <<>>,
     usersInWaitList |-> Array(<<>>)]

RECURSIVE RegisterAll(_, _, _)
RegisterAll(handlers, kinds, callback) ==
    IF kinds = <<>> THEN handlers
    ELSE RegisterAll(on(handlers, Head(kinds), callback), Tail(kinds), callback)

\* the bot.on calls of StateTracker.init
InitRegistrations(handlers) == RegisterAll(handlers, TrackedKinds, TRACKER)

\* the kinds the plugin module of event_listeners/ exports a listener for
PluginKinds == <<ADVANCE, CHAT, CHAT_DELETE, DJ_LIST_UPDATE, GRAB,
                 MODERATE_REMOVE_DJ, USER_JOIN, USER_LEAVE, USER_UPDATE, VOTE>>

\* the completion callback start() hands to StateTracker.init:
\* _registerEventListeners, then the command router
CompleteRegistrations(handlers) ==
    on(RegisterAll(handlers, PluginKinds, PLUGIN), CHAT_COMMAND, ROUTER)

\* the timer of start() fires: StateTracker.init up to the getHistory request
StateTrackerInit ==
    /\ phase = "waiting"
    /\ phase' = "querying"
    /\ roomState' = EmptyRoomState
    /\ eventHandlers' = InitRegistrations(eventHandlers)
    /\ UNCHANGED <<completeCount, last, upVars, nextChatID, auxVars>>

\* the history entries with empty vote lists in place of votes: null
HistoryPlays_EmptyVotes(records) ==
    [i \in 1..Len(records) |->
        [media |-> records[i].media,
         startDate |-> translateDateString(records[i].timestamp),
         user |-> [userID |-> records[i].user.id,
                   username |-> records[i].user.username],
         votes |-> EmptyVotes, score |-> TRUE]]

\* the history entries of populateUsers' first loop over the query's records
RECURSIVE HistoryPlays(_)
HistoryPlays(records) ==
    IF records = <<>> THEN <<>>
    ELSE <<[media |-> Head(records).media,
            startDate |-> translateDateString(Head(records).timestamp),
            user |-> [userID |-> Head(records).user.id,
                      username |-> Head(records).user.username],
            votes |-> NullVotes, score |-> TRUE]>> \o HistoryPlays(Tail(records))

\* a flag test that lets nobody into the mehs
VoteFlag_IgnoresMeh(u, list) ==
    CASE list = "grabs" -> u.grab
      [] list = "woots" -> u.vote = 1
      [] list = "mehs" -> FALSE

\* whether roster entry u belongs in the named vote list of the current play
VoteFlag(u, list) ==
    CASE list = "grabs" -> u.grab
      [] list = "woots" -> u.vote = 1
      [] list = "mehs" -> u.vote = -1

\* ids of the roster's users, in roster order, that belong in the named list
Flagged(users, list) ==
    LET Hit(u) == VoteFlag(u, list)
        hits == SelectSeq(users, Hit)
    IN  [i \in 1..Len(hits) |-> hits[i].id]

\* the callback populateUsers hands to getHistory, up to its call of callback()
populateUsers(rs, playHistory, media, dj, users, waitList) ==
    LET currentSong == media
        currentDj == translateUserObject(dj)
        withUsers == [rs EXCEPT !.usersInRoom = @ \o translateUsers(users)]
        withWait == [withUsers EXCEPT !.usersInWaitList.elems =
                        (@ \o <<currentDj>>) \o translateUsers(waitList)]
        withHistory == [withWait EXCEPT !.playHistory = @ \o HistoryPlays(playHistory)]
        \* Date.now() less the time elapsed: the instant the play began
        startDate == translateDateString(PlayStartTime(currentSong))
        currentPlay == [media |-> currentSong, startDate |-> startDate,
                        user |-> currentDj,
                        votes |-> [isNull |-> FALSE,
                                   grabs |-> Flagged(users, "grabs"),
                                   mehs |-> Flagged(users, "mehs"),
                                   woots |-> Flagged(users, "woots")],
                        score |-> FALSE]
    IN  IF ~rs.usersInWaitList.isArray THEN Threw(withUsers)
        ELSE IF currentSong # 0 /\ currentDj # NullUser
        THEN Returned([withHistory EXCEPT !.playHistory = <<currentPlay>> \o @])
        ELSE Returned(withHistory)

\* the upstream room's roster as getUsers returns it
RosterUser(id) ==
    [id |-> id, username |-> Username(id), vote |-> upVotes[id], grab |-> id \in upGrabs]

\* getUsers' roster and the raw user objects of a list of ids
Roster(ids) == [i \in 1..Len(ids) |-> RosterUser(ids[i])]
RawUsers(ids) == [i \in 1..Len(ids) |-> RawUser(ids[i])]

\* the records of a historical query that returns n plays, all before the
\* plays of the model's run
HistoryRecord(i) ==
    [media |-> 0 - i, timestamp |-> PlayStartTime(0 - i),
     user |-> RawUser(1 + (i % Cardinality(UserIDs)))]
HistoryRecords(n) == [i \in 1..n |-> HistoryRecord(i)]

\* getHistory answers: populateUsers' callback runs, and when it does not throw
\* it calls init's onComplete, the registration callback of start()
HistoryCallbackOf(n) ==
    /\ phase = "querying"
    /\ LET r == populateUsers(roomState, HistoryRecords(n), upMedia,
                               IF upDJ = 0 THEN [id |-> 0, username |-> 0]
                                           ELSE RawUser(upDJ),
                               Roster(Ascending(upUsers)),
                               RawUsers(upWaitList))
        IN  /\ roomState' = r.rs
            /\ IF r.threw \/ onComplete # FUNCTION
               THEN \* populateUsers threw, or callback is not a function
                    /\ phase' = "crashed"
                    /\ UNCHANGED <<eventHandlers, completeCount>>
               ELSE /\ phase' = "synced"
                    /\ eventHandlers' = CompleteRegistrations(eventHandlers)
                    /\ completeCount' = completeCount + 1
    /\ UNCHANGED <<last, upVars, nextChatID, auxVars>>

HistoryCallback == \E n \in 0..MaxHistory : HistoryCallbackOf(n)

\* the same answer from a room with a longer past
HistoryCallbackLong == \E n \in 0..MaxLongHistory : HistoryCallbackOf(n)

(* ---------------------------- live events -------------------------------- *)

RawNullUser == [id |-> 0, username |-> 0]

NoVotes == [id \in UserIDs |-> 0]

\* a user enters the room (PlugAPI may repeat the event for a user it has)
UserJoinEvent(id) ==
    /\ upUsers' = upUsers \cup {id}
    /\ UNCHANGED <<upDJ, upWaitList, upMedia, upPlayCount, upVotes, upGrabs, nextChatID>>
    /\ Deliver(USER_JOIN, RawUser(id))

UserJoin == \E id \in UserIDs : UserJoinEvent(id)

\* a user leaves the room; the vote flags go with the user object
UserLeaveEvent(id) ==
    /\ upUsers' = upUsers \ {id}
    /\ upVotes' = [upVotes EXCEPT ![id] = 0]
    /\ upGrabs' = upGrabs \ {id}
    /\ UNCHANGED <<upDJ, upWaitList, upMedia, upPlayCount, nextChatID>>
    /\ Deliver(USER_LEAVE, RawUser(id))

UserLeave == \E id \in UserIDs : UserLeaveEvent(id)

\* the next play starts: a DJ, the media, and the DJs as getDJs lists them,
\* the current DJ first
AdvancePlayEvent(dj, wl) ==
    /\ upPlayCount < MaxPlays
    /\ upDJ' = dj
    /\ upWaitList' = wl
    /\ upMedia' = upPlayCount + 1
    /\ upPlayCount' = upPlayCount + 1
    /\ upVotes' = NoVotes
    /\ upGrabs' = {}
    /\ UNCHANGED <<upUsers, nextChatID>>
    /\ Deliver(ADVANCE, [currentDJ |-> RawUser(dj), media |-> upPlayCount + 1,
                         startTime |-> PlayStartTime(upPlayCount + 1),
                         djs |-> RawUsers(<<dj>> \o wl)])

AdvancePlay ==
    \E dj \in UserIDs : \E wl \in DistinctSeqs(UserIDs \ {dj}) : AdvancePlayEvent(dj, wl)

\* the next play starts with nobody else waiting
AdvancePlayAlone == \E dj \in UserIDs : AdvancePlayEvent(dj, <<>>)

\* the play ends and nobody is waiting: an advance event without DJ and media
AdvanceSilence ==
    /\ upMedia # 0
    /\ upWaitList = <<>>
    /\ upDJ' = 0
    /\ upMedia' = 0
    /\ upVotes' = NoVotes
    /\ upGrabs' = {}
    /\ UNCHANGED <<upUsers, upWaitList, upPlayCount, nextChatID>>
    /\ Deliver(ADVANCE, [currentDJ |-> RawNullUser, media |-> 0,
                         startTime |-> PlayStartTime(0), djs |-> <<>>])

\* the wait list changes: the event is the list of waiting userIDs
DjListUpdate ==
    \E wl \in DistinctSeqs(UserIDs \ {upDJ}) :
        /\ wl # upWaitList
        /\ upWaitList' = wl
        /\ UNCHANGED <<upUsers, upDJ, upMedia, upPlayCount, upVotes, upGrabs, nextChatID>>
        /\ Deliver(DJ_LIST_UPDATE, wl)

\* a moderator removes the i-th waiting user
ModRemoveDJEvent(i, mod) ==
    /\ upWaitList' = Splice1(upWaitList, i)
    /\ UNCHANGED <<upUsers, upDJ, upMedia, upPlayCount, upVotes, upGrabs, nextChatID>>
    /\ Deliver(MODERATE_REMOVE_DJ,
               [m |-> Username(mod), mi |-> mod, t |-> Username(upWaitList[i])])

ModRemoveDJ == \E i \in 1..Len(upWaitList) : \E mod \in UserIDs : ModRemoveDJEvent(i, mod)

\* a user in the room woots or mehs the play in progress
VoteEvent(id, v) ==
    /\ upVotes' = [upVotes EXCEPT ![id] = v]
    /\ UNCHANGED <<upUsers, upDJ, upWaitList, upMedia, upPlayCount, upGrabs, nextChatID>>
    /\ Deliver(VOTE, [i |-> id, v |-> v])

Vote == upMedia # 0 /\ \E id \in upUsers : \E v \in {1, -1} : VoteEvent(id, v)

\* a user in the room grabs the play in progress: the event is the userID
GrabEvent(id) ==
    /\ upGrabs' = upGrabs \cup {id}
    /\ UNCHANGED <<upUsers, upDJ, upWaitList, upMedia, upPlayCount, upVotes, nextChatID>>
    /\ Deliver(GRAB, id)

Grab == upMedia # 0 /\ \E id \in upUsers : GrabEvent(id)

\* a chat message with a fresh chat ID
ChatEvent(id) ==
    /\ nextChatID' = nextChatID + 1
    /\ UNCHANGED upVars
    /\ Deliver(CHAT, [raw |-> [cid |-> nextChatID + 1], from |-> RawUser(id)])

Chat == nextChatID < MaxChats /\ \E id \in UserIDs : ChatEvent(id)

\* a moderator deletes the message with chat ID c
ChatDeleteEvent(c, mod) ==
    /\ UNCHANGED <<upVars, nextChatID>>
    /\ Deliver(CHAT_DELETE, [c |-> c, mi |-> mod])

ChatDelete == \E c \in 1..MaxChats : \E mod \in UserIDs : ChatDeleteEvent(c, mod)

\* something about a user changes: a kind the tracker does not subscribe to
UserUpdate ==
    \E id \in upUsers :
        /\ UNCHANGED <<upVars, nextChatID>>
        /\ Deliver(USER_UPDATE, RawUser(id))

(* ---------------------------- command router ----------------------------- *)

\* command keywords as users type them and as modules list them
Keywords == {"help", "Help", "skip"}

toLowerCase(string) == IF string = "Help" THEN "help" ELSE string

\* a command module without a minimumRole export
NoRole == 0 - 1

\* the levels of types.js Role the command modules ask for
BOUNCER == 2

\* the command modules a commands directory may hold
CommandModules ==
    [triggers : {{"help"}, {"Help"}, {"help", "skip"}},
     minimumRole : {NoRole, BOUNCER},
     insufficientPermissionsHandler : BOOLEAN]

\* the loop of the command handler from commands[i] on: the callbacks called
RECURSIVE RunCommands(_, _, _, _, _)
RunCommands(cmds, i, commandName, commandEvent, calls) ==
    IF i > Len(cmds) THEN calls
    ELSE LET command == cmds[i]
         IN  IF commandName \in command.triggers
             THEN IF /\ command.minimumRole # NoRole
                     /\ commandEvent.userRole.level < command.minimumRole
                  THEN RunCommands(cmds, i + 1, commandName, commandEvent,
                            IF command.insufficientPermissionsHandler
                            THEN Append(calls, [command |-> i,
                                    callback |-> "insufficientPermissionsHandler"])
                            ELSE calls)
                  ELSE RunCommands(cmds, i + 1, commandName, commandEvent,
                            Append(calls, [command |-> i, callback |-> "handler"]))
             ELSE RunCommands(cmds, i + 1, commandName, commandEvent, calls)

\* a command handler that stops at the first command it invokes
RECURSIVE RunCommandsFirstMatch(_, _, _, _)
RunCommandsFirstMatch(cmds, i, commandName, commandEvent) ==
    IF i > Len(cmds) THEN <<>>
    ELSE IF /\ commandName \in cmds[i].triggers
            /\ \/ cmds[i].minimumRole = NoRole
               \/ commandEvent.userRole.level >= cmds[i].minimumRole
    THEN <<[command |-> i, callback |-> "handler"]>>
    ELSE RunCommandsFirstMatch(cmds, i + 1, commandName, commandEvent)

_createCommandHandler_FirstMatch(cmds, caseSensitive, commandEvent) ==
    RunCommandsFirstMatch(cmds, 1,
        IF ~caseSensitive THEN toLowerCase(commandEvent.command)
                          ELSE commandEvent.command,
        commandEvent)

\* a command handler whose role test lets the minimum role itself fail
_createCommandHandler_StrictRole(cmds, caseSensitive, commandEvent) ==
    RunCommands(cmds, 1,
        IF ~caseSensitive THEN toLowerCase(commandEvent.command)
                          ELSE commandEvent.command,
        [commandEvent EXCEPT !.userRole.level = @ - 1], <<>>)

\* the function _createCommandHandler returns, called with commandEvent
_createCommandHandler(cmds, caseSensitive, commandEvent) ==
    LET commandName == IF ~caseSensitive THEN toLowerCase(commandEvent.command)
                                         ELSE commandEvent.command
    IN  RunCommands(cmds, 1, commandName, commandEvent, <<>>)

NoCommandCalls == [event |-> NullEvent, calls |-> <<>>]

\* the plug.dj role numbers of the users who send commands: none, bouncer,
\* host, and a number translateRole does not know
RawRoles == {0, 2, 5, 7}

\* a user sends a chat command: the dispatcher of CHAT_COMMAND runs, and the
\* router, when it is registered, hands the command to the command modules
CommandEvent(keyword, id, role) ==
    LET event == [command |-> keyword,
                  from |-> [id |-> id, username |-> Username(id), role |-> role]]
        d == _createEventDispatcher(CHAT_COMMAND, event, eventHandlers, roomState)
    IN  /\ last' = [kind |-> CHAT_COMMAND, phase |-> phase, invoked |-> d.invoked,
                    threw |-> d.threw, changedUsers |-> FALSE]
        /\ commandCalls' =
                IF ROUTER \in Range(d.invoked)
                THEN [event |-> d.event,
                      calls |-> _createCommandHandler(commands,
                                    areCommandsCaseSensitive, d.event)]
                ELSE NoCommandCalls
        /\ UNCHANGED <<phase, eventHandlers, roomState, completeCount, upVars,
                       nextChatID, requests, translation, commands,
                       areCommandsCaseSensitive, registration, onComplete>>

Command ==
    \E keyword \in Keywords : \E id \in UserIDs : \E role \in RawRoles :
        CommandEvent(keyword, id, role)

(* ---------------------------- registration by plugins -------------------- *)

\* the names plugin code hands to Bot.on: a kind of the Event enum, a name that
\* is no kind, and a name that is no kind but a member of Object.prototype
RegistrableNames == {USER_UPDATE, "bogus", "toString"}

NoRegistration ==
    [eventName |-> "none", callback |-> "none", threw |-> FALSE, logged |-> <<>>]

\* plugin code calls bot.on(eventName, callback)
BotOnCall(eventName, callback) ==
    /\ eventName \in DOMAIN eventHandlers
            => Len(eventHandlers[eventName]) < MaxListeners
    /\ eventHandlers' = on(eventHandlers, eventName, callback)
    /\ registration' = [eventName |-> eventName, callback |-> callback,
                        threw |-> onThrows(eventHandlers, eventName),
                        logged |-> onLogs(eventHandlers, eventName)]
    /\ UNCHANGED <<phase, roomState, completeCount, last, upVars, nextChatID,
                   requests, translation, commands, areCommandsCaseSensitive,
                   commandCalls, onComplete>>

BotOn ==
    \E eventName \in RegistrableNames : \E callback \in {PLUGIN, NOT_A_FUNCTION} :
        BotOnCall(eventName, callback)

(* ---------------------------- raw payloads with missing fields ----------- *)

\* how a call of a translator ends
THROWS == "throws"
RETURNS_NULL == "returns null"
RETURNS_UNDEFINED == "returns undefined"
RETURNS_VALUE == "returns a value"

NoTranslation == [kind |-> "none", event |-> <<>>, outcome |-> RETURNS_NULL]

\* a field that may be absent: a string is modelled by its length
Undefined == [defined |-> FALSE, length |-> 0]
String(n) == [defined |-> TRUE, length |-> n]

\* date fields: absent, a string of another format, a plug.dj date string
DateStrings == {Undefined, String(10), String(26)}

\* translateDateString: string.length of an absent string is a TypeError
translateDateStringOutcome(string) ==
    IF ~string.defined THEN THROWS
    ELSE IF string.length # 26 THEN RETURNS_UNDEFINED
    ELSE RETURNS_VALUE

\* raw user objects: null, or a user with its joined field
UserPayloads ==
    {[isNull |-> TRUE, joined |-> Undefined]}
        \cup {[isNull |-> FALSE, joined |-> j] : j \in DateStrings}

\* translateUserObject: the joinDate is translated whatever joined holds
translateUserObjectOutcome(plugapiDj) ==
    IF plugapiDj.isNull THEN RETURNS_NULL
    ELSE IF translateDateStringOutcome(plugapiDj.joined) = THROWS THEN THROWS
    ELSE RETURNS_VALUE

SeqsUpTo(S, n) == UNION {[1..k -> S] : k \in 0..n}

\* raw advance payloads: currentDJ, whether media is there, startTime, djs
\* (absent or a list), the dj of lastPlay (lastPlay absent or complete)
AdvancePayloads ==
    [currentDJ : UserPayloads, media : BOOLEAN, startTime : DateStrings,
     djsDefined : BOOLEAN, djs : SeqsUpTo(UserPayloads, MaxDjs),
     lastPlayDefined : BOOLEAN, lastPlayDj : UserPayloads]

translateAdvanceEventOutcome(event) ==
    IF event.currentDJ.isNull \/ ~event.media THEN RETURNS_NULL
    ELSE IF translateUserObjectOutcome(event.currentDJ) = THROWS THEN THROWS
    ELSE IF translateDateStringOutcome(event.startTime) = THROWS THEN THROWS
    ELSE IF ~event.djsDefined THEN THROWS
    ELSE IF \E i \in 1..Len(event.djs) :
                translateUserObjectOutcome(event.djs[i]) = THROWS THEN THROWS
    ELSE IF /\ event.lastPlayDefined
            /\ translateUserObjectOutcome(event.lastPlayDj) = THROWS THEN THROWS
    ELSE RETURNS_VALUE

\* raw chat payloads: whether raw and from are there, the message (absent,
\* beginning with "!", other) and the upstream type
ChatMessages == {"absent", "!command", "text"}
ChatUpstreamTypes == {"message", "emote", "mention", "other"}

ChatPayloads ==
    [raw : BOOLEAN, from : BOOLEAN, message : ChatMessages, type : ChatUpstreamTypes]

\* types.js ChatType
COMMAND == "command"
EMOTE == "emote"
MESSAGE == "message"

\* translateChatType: the ChatType it returns, or THROWS. Reading message[0] of
\* an absent message throws, and the default branch names the undeclared
\* variable `type` in the arguments of LOG.error, which throws a ReferenceError
\* before anything is logged or returned
translateChatType(event) ==
    IF event.message = "absent" THEN THROWS
    ELSE IF event.message = "!command" THEN COMMAND
    ELSE CASE event.type = "message" -> MESSAGE
           [] event.type = "emote" -> EMOTE
           [] event.type = "mention" -> MESSAGE
           [] OTHER -> THROWS

translateChatTypeOutcome(event) ==
    IF translateChatType(event) = THROWS THEN THROWS ELSE RETURNS_VALUE

translateChatEventOutcome(event) ==
    IF ~event.raw THEN THROWS
    ELSE IF translateChatTypeOutcome(event) = THROWS THEN THROWS
    ELSE IF ~event.from THEN THROWS
    ELSE RETURNS_VALUE

\* the role numbers of raw payloads: the six plug.dj knows and two it does not
RoleCodes == 0..5 \cup {7, 0 - 1}

CommandPayloads == [from : BOOLEAN, message : ChatMessages, role : RoleCodes]

translateCommandEventOutcome(event) ==
    IF ~event.from THEN THROWS
    ELSE IF event.message = "absent" THEN THROWS
    ELSE RETURNS_VALUE

\* payloads whose translator reads only fields of the payload itself
FlatPayloads == [fields : SUBSET {"c", "mi", "i", "v", "m", "t"}]

PayloadsOf(kind) ==
    CASE kind = ADVANCE -> AdvancePayloads
      [] kind = CHAT -> ChatPayloads
      [] kind = CHAT_COMMAND -> CommandPayloads
      [] kind \in {USER_JOIN, USER_LEAVE, USER_UPDATE} -> UserPayloads
      [] OTHER -> FlatPayloads

\* the translator _eventTranslatorMap names for the kind, applied to the payload
TranslateOutcome(kind, event) ==
    CASE kind = ADVANCE -> translateAdvanceEventOutcome(event)
      [] kind = CHAT -> translateChatEventOutcome(event)
      [] kind = CHAT_COMMAND -> translateCommandEventOutcome(event)
      [] kind \in {USER_JOIN, USER_LEAVE, USER_UPDATE} -> translateUserObjectOutcome(event)
      [] OTHER -> RETURNS_VALUE

\* the dispatcher of a kind calls its translator on a raw payload (one call is
\* followed: the translators keep no state between calls)
TranslatePayload ==
    /\ translation = NoTranslation
    /\ \E kind \in Event : \E event \in PayloadsOf(kind) :
        translation' = [kind |-> kind, event |-> event,
                        outcome |-> TranslateOutcome(kind, event)]
    /\ UNCHANGED <<phase, eventHandlers, roomState, completeCount, last, upVars,
                   nextChatID, requests, routerVars>>

\* the kinds of the moderation events whose codes the translator looks up
MODERATE_BAN == "modBan"
MODERATE_MUTE == "modMute"

\* translateModBanEvent: the duration of the ban, from the code in event.d
translateModBanEvent(event) ==
    [duration |-> IF event.d = "h" THEN "1 hour"
                  ELSE IF event.d = "d" THEN "1 day"
                  ELSE "Forever"]

\* the levels of the messages translateModBanEvent logs: it has no call of LOG
translateModBanEventLogs(event) == <<>>

\* translateModMuteEvent: the reason from the code in event.r, the duration in
\* seconds from the code in event.d
translateModMuteEvent(event) ==
    [reason |-> CASE event.r = 1 -> "Violating community rules"
                  [] event.r = 2 -> "Verbal abuse or harassment"
                  [] event.r = 3 -> "Spamming or trolling"
                  [] event.r = 4 -> "Offensive language"
                  [] event.r = 5 -> "Negative attitude"
                  [] OTHER -> "Violating community rules",
     muteDurationInSeconds |-> CASE event.d = "s" -> 15 * 60
                                 [] event.d = "d" -> 30 * 60
                                 [] event.d = "l" -> 45 * 60
                                 [] OTHER -> 30 * 60]

\* the levels of the messages translateModMuteEvent logs: LOG.error in the
\* default branch of each switch
translateModMuteEventLogs(event) ==
    (IF event.r \in 1..5 THEN <<>> ELSE <<"error">>)
        \o (IF event.d \in {"s", "d", "l"} THEN <<>> ELSE <<"error">>)

\* raw modBan and modMute payloads: the duration code (the known ones, one that
\* is no code, and none) and the reason number
ModerationPayloads(kind) ==
    IF kind = MODERATE_BAN THEN [d : {"h", "d", "f", "x", UNDEFINED}]
    ELSE [d : {"s", "d", "l", "x", UNDEFINED}, r : 0..6]

\* a modBan or modMute event is translated
TranslateModeration ==
    /\ translation = NoTranslation
    /\ \E kind \in {MODERATE_BAN, MODERATE_MUTE} : \E event \in ModerationPayloads(kind) :
        translation' = [kind |-> kind, event |-> event, outcome |-> RETURNS_VALUE]
    /\ UNCHANGED <<phase, eventHandlers, roomState, completeCount, last, upVars,
                   nextChatID, requests, routerVars>>

(* ---------------------------- outbound actions --------------------------- *)

\* what a caller's completion callback was called with
CalledTrue == "callback(true)"
CalledFalse == "callback(false)"
CalledWithUpstreamArguments == "callback.apply(null, args)"

\* how the upstream service ends a request it had queued
SUCCEEDED == "succeeded"
FAILED == "failed"

\* the record of one outbound request: the Bot method, whether the caller
\* passed a callback, whether the method threw, whether it called the upstream
\* client, whether the upstream client queued the request (its synchronous
\* return value), whether the upstream client's own callback is still to come,
\* how the upstream service ended the request, and the calls of the caller's
\* callback in order
Request(method, callback, wasQueued, calls) ==
    [method |-> method, callback |-> callback, threw |-> FALSE, sent |-> TRUE,
     wasQueued |-> wasQueued, pending |-> wasQueued, outcome |-> "none",
     calls |-> calls]

\* types.js BanDuration and BanReason: the values of the enums
BanDuration == {"1 day", "1 hour", "Forever"}
BanReason == {"Spamming or trolling", "Verbal abuse or offensive language",
              "Playing offensive videos/songs",
              "Repeatedly playing inappropriate genre(s)", "Negative attitude"}

\* utils.js: whether the check passes (it throws an Error when it does not)
checkHasValue(value) == value # UNDEFINED
checkValueIsInObject(value, object) == value \in object
checkHasType(value, type) == value = type

\* a call of banUser that threw before it reached the upstream client
Thrown(method, callback) ==
    [method |-> method, callback |-> callback = FUNCTION, threw |-> TRUE,
     sent |-> FALSE, wasQueued |-> FALSE, pending |-> FALSE, outcome |-> "none",
     calls |-> <<>>]

\* banUser without its check of the ban reason
banUser_NoReasonCheck(userID, banDuration, banReason, callback, wasRequestSent) ==
    IF ~checkHasValue(userID) THEN Thrown("banUser", callback)
    ELSE IF ~checkValueIsInObject(banDuration, BanDuration) THEN Thrown("banUser", callback)
    ELSE IF callback # UNDEFINED /\ ~checkHasType(callback, FUNCTION)
    THEN Thrown("banUser", callback)
    ELSE Request("banUser", callback = FUNCTION, wasRequestSent, <<>>)

\* Bot.prototype.banUser, up to its return
banUser(userID, banDuration, banReason, callback, wasRequestSent) ==
    IF ~checkHasValue(userID) THEN Thrown("banUser", callback)
    ELSE IF ~checkValueIsInObject(banDuration, BanDuration) THEN Thrown("banUser", callback)
    ELSE IF ~checkValueIsInObject(banReason, BanReason) THEN Thrown("banUser", callback)
    ELSE IF callback # UNDEFINED /\ ~checkHasType(callback, FUNCTION)
    THEN Thrown("banUser", callback)
    ELSE Request("banUser", callback = FUNCTION, wasRequestSent, <<>>)

\* the body the methods below share: a request that was not queued calls the
\* callback with false at once
QueueOrFail(method, callback, wasQueued) ==
    Request(method, callback, wasQueued,
            IF ~wasQueued /\ callback THEN <<CalledFalse>> ELSE <<>>)

forceSkip(callback, wasSkipQueued) == QueueOrFail("forceSkip", callback, wasSkipQueued)

grabSong(callback, wasGrabQueued) == QueueOrFail("grabSong", callback, wasGrabQueued)

joinWaitList(callback, wasJoinQueued) == QueueOrFail("joinWaitList", callback, wasJoinQueued)

leaveWaitList(callback, wasLeaveQueued) == QueueOrFail("leaveWaitList", callback, wasLeaveQueued)

mehSong(callback, wasMehQueued) == QueueOrFail("mehSong", callback, wasMehQueued)

wootSong(callback, wasWootQueued) == QueueOrFail("wootSong", callback, wasWootQueued)

\* the function each method hands to the upstream client, when that calls it
\* at the end of the request, however the request ended
UpstreamCallbackOf(request, outcome) ==
    [request EXCEPT
        !.pending = FALSE,
        !.outcome = outcome,
        !.calls = IF ~request.callback THEN @
                  ELSE IF request.method = "banUser"
                  THEN Append(@, CalledWithUpstreamArguments)
                  ELSE Append(@, CalledTrue)]

\* a plugin calls a method of the Bot
Call(request) ==
    /\ Len(requests) < MaxRequests
    /\ requests' = Append(requests, request)
    /\ UNCHANGED <<phase, eventHandlers, roomState, completeCount, last, upVars,
                   nextChatID, translation, routerVars>>

\* the arguments plugins hand to banUser
BanUserIDs == {"4613422", UNDEFINED}
BanDurationArgs == {"1 hour", "Forever", "1 week"}
BanReasonArgs == {"Negative attitude", "Being rude"}
CallbackArgs == {UNDEFINED, FUNCTION, NOT_A_FUNCTION}

BanUserCall(userID, banDuration, banReason, callback, sent) ==
    Call(banUser(userID, banDuration, banReason, callback, sent))

BanUser ==
    \E userID \in BanUserIDs : \E banDuration \in BanDurationArgs :
    \E banReason \in BanReasonArgs : \E callback \in CallbackArgs :
    \E sent \in BOOLEAN :
        BanUserCall(userID, banDuration, banReason, callback, sent)

ForceSkip == \E callback, queued \in BOOLEAN : Call(forceSkip(callback, queued))

GrabSong == \E callback, queued \in BOOLEAN : Call(grabSong(callback, queued))

JoinWaitList == \E callback, queued \in BOOLEAN : Call(joinWaitList(callback, queued))

LeaveWaitList == \E callback, queued \in BOOLEAN : Call(leaveWaitList(callback, queued))

MehSong == \E callback, queued \in BOOLEAN : Call(mehSong(callback, queued))

WootSong == \E callback, queued \in BOOLEAN : Call(wootSong(callback, queued))

\* the upstream service ends a queued request, and the upstream client calls
\* the function the method handed to it
UpstreamCallback ==
    \E i \in 1..Len(requests) : \E outcome \in {SUCCEEDED, FAILED} :
        /\ requests[i].pending
        /\ requests' = [requests EXCEPT ![i] = UpstreamCallbackOf(requests[i], outcome)]
        /\ UNCHANGED <<phase, eventHandlers, roomState, completeCount, last, upVars,
                       nextChatID, translation, routerVars>>

\* the upstream service fails a queued request and the upstream client never
\* calls the function the method handed to it
UpstreamFailure ==
    \E i \in 1..Len(requests) :
        /\ requests[i].pending
        /\ requests' = [requests EXCEPT ![i] = [@ EXCEPT !.pending = FALSE,
                                                         !.outcome = FAILED]]
        /\ UNCHANGED <<phase, eventHandlers, roomState, completeCount, last, upVars,
                       nextChatID, translation, routerVars>>

(* ---------------------------- specifications ----------------------------- *)

NoDispatch ==
    [kind |-> "none", phase |-> "waiting", invoked |-> <<>>, threw |-> FALSE,
     changedUsers |-> FALSE]

\* start() has built the Bot (every kind's handler list empty), sent the connect
\* request and set its timer
InitBot ==
    /\ phase = "waiting"
    /\ eventHandlers = [k \in Event |-> <<>>]
    /\ roomState = EmptyRoomState
    /\ completeCount = 0
    /\ last = NoDispatch
    /\ nextChatID = 0
    /\ requests = <<>>
    /\ translation = NoTranslation
    /\ commandCalls = NoCommandCalls
    /\ registration = NoRegistration

\* a bot whose commands directory holds no command module
InitProgram ==
    /\ InitBot
    /\ onComplete = FUNCTION
    /\ commands = <<>>
    /\ areCommandsCaseSensitive = FALSE

\* the room the bot connects to: silent, or in its first play
InitRoom ==
    /\ upUsers \in SUBSET UserIDs
    /\ \/ upDJ = 0 /\ upWaitList = <<>> /\ upMedia = 0 /\ upPlayCount = 0
       \/ /\ upDJ \in UserIDs
          /\ upWaitList \in DistinctSeqs(UserIDs \ {upDJ})
          /\ upMedia = 1
          /\ upPlayCount = 1

Init ==
    /\ InitProgram
    /\ InitRoom
    /\ upVotes = NoVotes
    /\ upGrabs = {}

\* startup and the events about who is in the room and who is waiting
Next ==
    \/ StateTrackerInit
    \/ HistoryCallback
    \/ UserJoin
    \/ UserLeave
    \/ AdvancePlay
    \/ AdvanceSilence
    \/ DjListUpdate
    \/ ModRemoveDJ
    \/ UserUpdate

Spec == Init /\ [][Next]_vars

\* both users in the room, which is silent or in the first play of user 1, with
\* the votes cast so far
InitVotes ==
    /\ InitProgram
    /\ upUsers = UserIDs
    /\ upWaitList = <<>>
    /\ \/ upDJ = 0 /\ upMedia = 0 /\ upPlayCount = 0
       \/ upDJ = 1 /\ upMedia = 1 /\ upPlayCount = 1
    /\ upVotes \in [UserIDs -> {-1, 0, 1}]
    /\ upGrabs = {}
    /\ upMedia = 0 => upVotes = NoVotes

\* startup and the events about plays and the votes on them
NextVotes ==
    \/ StateTrackerInit
    \/ HistoryCallback
    \/ AdvancePlayAlone
    \/ AdvanceSilence
    \/ Vote

SpecVotes == InitVotes /\ [][NextVotes]_vars

\* both users in the room, which is silent or in the first play of user 1, with
\* the grabs made so far
InitGrabs ==
    /\ InitProgram
    /\ upUsers = UserIDs
    /\ upWaitList = <<>>
    /\ \/ upDJ = 0 /\ upMedia = 0 /\ upPlayCount = 0
       \/ upDJ = 1 /\ upMedia = 1 /\ upPlayCount = 1
    /\ upVotes = NoVotes
    /\ upGrabs \in SUBSET UserIDs
    /\ upMedia = 0 => upGrabs = {}

\* startup and the events about plays and the grabs of them
NextGrabs ==
    \/ StateTrackerInit
    \/ HistoryCallback
    \/ AdvancePlayAlone
    \/ AdvanceSilence
    \/ Grab

SpecGrabs == InitGrabs /\ [][NextGrabs]_vars

\* both users in the room, which is silent or in the first play of user 1, with
\* the votes and grabs made so far
InitStartup ==
    /\ InitProgram
    /\ upUsers = UserIDs
    /\ upWaitList = <<>>
    /\ \/ upDJ = 0 /\ upMedia = 0 /\ upPlayCount = 0
       \/ upDJ = 1 /\ upMedia = 1 /\ upPlayCount = 1
    /\ upVotes \in [UserIDs -> {0, 1, -1}]
    /\ upGrabs \in SUBSET UserIDs
    /\ upMedia = 0 => upVotes = NoVotes /\ upGrabs = {}

\* startup against a room with a past of several plays, and the events about
\* the play in progress
NextStartup ==
    \/ StateTrackerInit
    \/ HistoryCallbackLong
    \/ AdvancePlayAlone
    \/ Grab

SpecStartup == InitStartup /\ [][NextStartup]_vars

\* the same room, and a program that calls StateTracker.init(globalObject)
\* itself, without an onComplete
InitAlone ==
    /\ InitBot
    /\ commands = <<>>
    /\ areCommandsCaseSensitive = FALSE
    /\ onComplete = UNDEFINED
    /\ upUsers = UserIDs
    /\ upWaitList = <<>>
    /\ \/ upDJ = 0 /\ upMedia = 0 /\ upPlayCount = 0
       \/ upDJ = 1 /\ upMedia = 1 /\ upPlayCount = 1
    /\ upVotes \in [UserIDs -> {0, 1, -1}]
    /\ upGrabs \in SUBSET UserIDs
    /\ upMedia = 0 => upVotes = NoVotes /\ upGrabs = {}

SpecAlone == InitAlone /\ [][NextStartup]_vars

\* a silent room and a bot with the command modules of its commands directory
InitCommands ==
    /\ InitBot
    /\ onComplete = FUNCTION
    /\ commands \in SeqsUpTo(CommandModules, MaxCommands)
    /\ areCommandsCaseSensitive \in BOOLEAN
    /\ upUsers = UserIDs
    /\ upDJ = 0 /\ upWaitList = <<>> /\ upMedia = 0 /\ upPlayCount = 0
    /\ upVotes = NoVotes
    /\ upGrabs = {}

\* startup and the chat commands
NextCommands ==
    \/ StateTrackerInit
    \/ HistoryCallback
    \/ Command

SpecCommands == InitCommands /\ [][NextCommands]_vars

\* a silent room
InitChat ==
    /\ InitProgram
    /\ upUsers = UserIDs
    /\ upDJ = 0 /\ upWaitList = <<>> /\ upMedia = 0 /\ upPlayCount = 0
    /\ upVotes = NoVotes
    /\ upGrabs = {}

\* startup and the chat events
NextChat ==
    \/ StateTrackerInit
    \/ HistoryCallback
    \/ Chat
    \/ ChatDelete

SpecChat == InitChat /\ [][NextChat]_vars

\* startup, plugin code that registers listeners for user updates, and the
\* user updates
NextRegister ==
    \/ StateTrackerInit
    \/ HistoryCallback
    \/ BotOn
    \/ UserUpdate

SpecRegister == InitChat /\ [][NextRegister]_vars

\* the outbound actions of a Bot connected to a silent room
NextOutbound ==
    \/ BanUser
    \/ ForceSkip
    \/ GrabSong
    \/ JoinWaitList
    \/ LeaveWaitList
    \/ MehSong
    \/ WootSong
    \/ UpstreamCallback
    \/ UpstreamFailure

SpecOutbound == InitChat /\ [][NextOutbound]_vars

\* the translators applied to raw payloads of every shape
NextTranslate ==
    \/ TranslatePayload
    \/ TranslateModeration

SpecTranslate == InitChat /\ [][NextTranslate]_vars

\* user 1 alone in the room, playing
InitFrame ==
    /\ InitProgram
    /\ upUsers = {1}
    /\ upDJ = 1 /\ upWaitList = <<>> /\ upMedia = 1 /\ upPlayCount = 1
    /\ upVotes = NoVotes
    /\ upGrabs = {}

\* the events of the run after startup: user 2 joins, chats and has the message
\* deleted; user 1 votes and grabs; the wait list changes; user 2 plays
FrameChat == phase = "synced" /\ nextChatID < MaxFrameChats /\ ChatEvent(2)
FrameChatDelete == phase = "synced" /\ \E mod \in UserIDs : ChatDeleteEvent(1, mod)
FrameVote == phase = "synced" /\ upMedia # 0 /\ \E v \in {1, -1} : VoteEvent(1, v)
FrameGrab == phase = "synced" /\ upMedia # 0 /\ GrabEvent(1)
FrameUserJoin == phase = "synced" /\ UserJoinEvent(2)
FrameDjListUpdate == phase = "synced" /\ DjListUpdate
FrameModRemoveDJ == phase = "synced" /\ ModRemoveDJ
FrameUserUpdate == phase = "synced" /\ UserUpdate
FrameAdvance == phase = "synced" /\ AdvancePlayEvent(2, <<>>)

\* startup, and those events once it has completed
NextFrame ==
    \/ StateTrackerInit
    \/ HistoryCallback
    \/ FrameChat
    \/ FrameChatDelete
    \/ FrameVote
    \/ FrameGrab
    \/ FrameUserJoin
    \/ FrameDjListUpdate
    \/ FrameModRemoveDJ
    \/ FrameUserUpdate
    \/ FrameAdvance

SpecFrame == InitFrame /\ [][NextFrame]_vars

(* ---------------------------- claims ------------------------------------ *)

\* index in a newest-first chat history of the entry with chat ID c, 0 if none
ChatIndex(history, c) ==
    IF \E i \in 1..Len(history) : history[i].chatID = c
    THEN CHOOSE i \in 1..Len(history) : history[i].chatID = c
    ELSE 0

\* the entries a deletion of the entry at index x is to soft-delete: x and the
\* entries received after it (lower indices) in an unbroken run of x's author
RunAfter(history, x) ==
    {j \in 1..x : \A k \in j..x : history[k].userID = history[x].userID}

\* C1: a chatDelete naming a chat ID X of chatHistory soft-deletes X and the
\* not-yet-deleted entries of X's author received after X in an unbroken run,
\* and no entry received before X.
C1_CascadeRunsForward ==
    [][\A c \in 1..MaxChats : \A mod \in UserIDs :
        (/\ ChatDeleteEvent(c, mod)
         /\ phase = "synced"
         /\ ChatIndex(roomState.chatHistory, c) > 0)
        => \A i \in 1..Len(roomState.chatHistory) :
              roomState'.chatHistory[i].isDeleted
                <=> (\/ roomState.chatHistory[i].isDeleted
                     \/ i \in RunAfter(roomState.chatHistory,
                                       ChatIndex(roomState.chatHistory, c)))]_vars

\* C2: usersInRoom holds at most one entry per userID.
C2_UsersInRoomUnique ==
    \A i, j \in 1..Len(roomState.usersInRoom) :
        i # j => roomState.usersInRoom[i].userID # roomState.usersInRoom[j].userID

\* C3: no handler of the state tracker is invoked for a live event before the
\* history callback of populateUsers has completed.
C3_NoHandlerBeforeSync ==
    TRACKER \in Range(last.invoked) => last.phase = "synced"

NoDuplicates(s) == \A i, j \in 1..Len(s) : i # j => s[i] # s[j]

\* C4: after startup no userID is in both woots and mehs of playHistory[0] nor
\* twice in either, and while a play is in progress each user is in exactly the
\* set of their last vote on it (upVotes: woots for 1, mehs for -1, neither for
\* no vote).
C4_VotesExclusive ==
    (phase = "synced" /\ HasCurrentVotes(roomState)) =>
        LET votes == roomState.playHistory[1].votes
        IN  /\ NoDuplicates(votes.woots)
            /\ NoDuplicates(votes.mehs)
            /\ Range(votes.woots) \cap Range(votes.mehs) = {}
            /\ upMedia # 0 =>
                \A id \in UserIDs :
                    /\ id \in Range(votes.woots) <=> upVotes[id] = 1
                    /\ id \in Range(votes.mehs) <=> upVotes[id] = -1

\* C4 witness: after startup a vote event was handled, and the two users'
\* last votes differ
C4_Witness ==
    /\ phase = "synced"
    /\ last.kind = VOTE /\ last.phase = "synced" /\ ~last.threw
    /\ upVotes[1] = 1 /\ upVotes[2] = -1
    /\ roomState.playHistory[1].votes.woots = <<1>>
    /\ roomState.playHistory[1].votes.mehs = <<2>>
    /\ Len(roomState.playHistory) > 1

\* userIDs of the User records of an array, null entries left out
UserIDsOf(elems) ==
    LET present == SelectSeq(elems, LAMBDA u : u # NullUser)
    IN  [i \in 1..Len(present) |-> present[i].userID]

\* C5: after startup synchronization each userID appears at most once in
\* usersInWaitList.
C5_WaitListUnique ==
    phase = "synced" => NoDuplicates(UserIDsOf(roomState.usersInWaitList.elems))

\* C6: after a djListUpdate event is handled, usersInWaitList is the ordered
\* wait list of the event (upWaitList is the list the event carried).
C6_DjListUpdateReplaces ==
    (last.kind = DJ_LIST_UPDATE /\ last.phase = "synced" /\ TRACKER \in Range(last.invoked))
        => /\ roomState.usersInWaitList.isArray
           /\ UserIDsOf(roomState.usersInWaitList.elems) = upWaitList

\* C7: after a modRemoveDJ event naming a user of usersInWaitList is handled,
\* that user is no longer in usersInWaitList and the others keep their order.
C7_ModRemoveDjRemoves ==
    [][\A i \in 1..Len(upWaitList) : \A mod \in UserIDs :
        (/\ ModRemoveDJEvent(i, mod)
         /\ phase = "synced"
         /\ upWaitList[i] \in Range(UserIDsOf(roomState.usersInWaitList.elems)))
        => /\ upWaitList[i] \notin Range(UserIDsOf(roomState'.usersInWaitList.elems))
           /\ roomState'.usersInWaitList.elems =
                SelectSeq(roomState.usersInWaitList.elems,
                          LAMBDA u : u.userID # upWaitList[i])]_vars

\* C8: once startup synchronization has completed, playHistory[0] is the entry
\* of the play in progress, never an entry of the historical query.
C8_FrontIsPlayInProgress ==
    phase = "synced" =>
        /\ roomState.playHistory # <<>>
        /\ upMedia # 0
        /\ roomState.playHistory[1].media = upMedia
        /\ ~roomState.playHistory[1].score

\* C8 as amended: once startup synchronization has completed, whenever a play is
\* in progress upstream playHistory[0] is the entry of that play, by its DJ and
\* with vote sets, and no entry of the historical query.
C8_FrontIsPlayInProgressWhilePlaying ==
    (phase = "synced" /\ upMedia # 0) =>
        /\ roomState.playHistory # <<>>
        /\ roomState.playHistory[1].media = upMedia
        /\ roomState.playHistory[1].user.userID = upDJ
        /\ ~roomState.playHistory[1].votes.isNull
        /\ ~roomState.playHistory[1].score

\* C8 witness: an advance event handled after startup, with an entry of the
\* historical query further back
C8_Witness ==
    /\ phase = "synced"
    /\ last.kind = ADVANCE /\ last.phase = "synced" /\ last.invoked # <<>>
    /\ upMedia # 0
    /\ roomState.playHistory[1].media = upMedia
    /\ \E i \in 2..Len(roomState.playHistory) : roomState.playHistory[i].score

\* in a sequence of listeners the tracker comes before every other listener
TrackerFirst(listeners) ==
    \A i \in 1..Len(listeners) :
        listeners[i] # TRACKER => \E j \in 1..(i - 1) : listeners[j] = TRACKER

\* C9: for every kind the state tracker subscribes to, its handler is
\* registered, and in every dispatch invoked, before every plugin listener.
C9_TrackerBeforeExternal ==
    /\ \A k \in Range(TrackedKinds) : TrackerFirst(eventHandlers[k])
    /\ last.kind \in Range(TrackedKinds) => TrackerFirst(last.invoked)

\* C9 witness: an event of a tracked kind delivered to the tracker and then to
\* the plugin listener
C9_Witness ==
    /\ last.kind = USER_JOIN
    /\ last.invoked = <<TRACKER, PLUGIN>>

\* C10: init's completion callback fires exactly once, only after startup
\* synchronization has populated the room state, and no plugin listener or
\* command receives a live event before it.
C10_CompleteExactlyOnce ==
    /\ phase \in {"synced", "crashed"} => completeCount = 1
    /\ completeCount > 0 => phase = "synced"
    /\ (\E i \in 1..Len(last.invoked) : last.invoked[i] # TRACKER)
            => (last.phase = "synced" /\ completeCount = 1)

\* C11: when the upstream client reports that a request was not queued, the
\* caller's completion callback is still invoked, with a failure indicator.
C11_CallbackOnNotQueued ==
    \A i \in 1..Len(requests) :
        (requests[i].callback /\ requests[i].sent /\ ~requests[i].wasQueued)
            => requests[i].calls = <<CalledFalse>>

\* C12: translating a raw payload with missing or null nested fields never
\* throws into the dispatcher: the translator substitutes a default or returns
\* null.
C12_TranslatorNeverThrows == translation.outcome # THROWS

\* C13: playHistory[0].votes.grabs holds each userID at most once: a handled
\* grab event adds the userID only if it is absent, and a repeated grab by the
\* same user during the play leaves Room State unchanged.
C13_GrabsDistinct ==
    [][/\ HasCurrentVotes(roomState')
            => NoDuplicates(roomState'.playHistory[1].votes.grabs)
       /\ \A id \in UserIDs :
            (GrabEvent(id) /\ HasCurrentVotes(roomState))
                => /\ id \in Range(roomState'.playHistory[1].votes.grabs)
                   /\ id \in Range(roomState.playHistory[1].votes.grabs)
                        => roomState' = roomState]_vars

\* C13 witness: after startup both users' grab events were handled
C13_Witness ==
    /\ phase = "synced"
    /\ last.kind = GRAB /\ last.phase = "synced" /\ ~last.threw
    /\ TRACKER \in Range(last.invoked)
    /\ Len(roomState.playHistory) > 1
    /\ Len(roomState.playHistory[1].votes.grabs) = 2

\* userIDs recorded in usersInRoom, in order
RoomIDs(rs) == [i \in 1..Len(rs.usersInRoom) |-> rs.usersInRoom[i].userID]

C15_IsDeletedMonotonic ==
    [][\A i \in 1..Len(roomState.chatHistory) :
        roomState.chatHistory[i].isDeleted
            => \E j \in 1..Len(roomState'.chatHistory) :
                /\ roomState'.chatHistory[j].chatID = roomState.chatHistory[i].chatID
                /\ roomState'.chatHistory[j].isDeleted]_vars

\* C15 witness: two entries soft-deleted by different moderators, the older one
\* first, and a chat event handled since
C15_Witness ==
    /\ phase = "synced"
    /\ last.kind = CHAT /\ ~last.threw
    /\ Len(roomState.chatHistory) = 3
    /\ ~roomState.chatHistory[1].isDeleted
    /\ roomState.chatHistory[2].isDeleted /\ roomState.chatHistory[2].deletedByUserID = 2
    /\ roomState.chatHistory[3].isDeleted /\ roomState.chatHistory[3].deletedByUserID = 1

\* chat ID and author of the entries of a chat history, in order
ChatKeys(history) ==
    [i \in 1..Len(history) |-> <<history[i].chatID, history[i].userID>>]

\* C16: chatHistory is a newest-first append-only log: a chat event the tracker
\* handles puts exactly one new, non-deleted entry at index 0 before the
\* unchanged earlier entries, and no step removes or reorders entries.
C16_ChatHistoryAppendOnly ==
    [][/\ Len(roomState'.chatHistory) >= Len(roomState.chatHistory)
       /\ SubSeq(ChatKeys(roomState'.chatHistory),
                 Len(roomState'.chatHistory) - Len(roomState.chatHistory) + 1,
                 Len(roomState'.chatHistory)) = ChatKeys(roomState.chatHistory)
       /\ \A id \in UserIDs :
            (ChatEvent(id) /\ TRACKER \in Range(eventHandlers[CHAT]))
                => /\ Tail(roomState'.chatHistory) = roomState.chatHistory
                   /\ Head(roomState'.chatHistory).chatID = nextChatID'
                   /\ Head(roomState'.chatHistory).userID = id
                   /\ ~Head(roomState'.chatHistory).isDeleted
       /\ ~(\E id \in UserIDs : ChatEvent(id))
            => Len(roomState'.chatHistory) = Len(roomState.chatHistory)]_vars

\* C16 witness: after startup a chat event was handled on top of a soft-deleted
\* entry
C16_Witness ==
    /\ phase = "synced"
    /\ last.kind = CHAT /\ last.phase = "synced" /\ ~last.threw
    /\ TRACKER \in Range(last.invoked)
    /\ Len(roomState.chatHistory) = 2
    /\ roomState.chatHistory[1].chatID = 2 /\ ~roomState.chatHistory[1].isDeleted
    /\ roomState.chatHistory[2].chatID = 1 /\ roomState.chatHistory[2].isDeleted

\* userIDs usersInWaitList holds: those of its User records while it is an
\* array, those of its userIDs list once it is a djListUpdate event object
WaitListIDs(rs) ==
    IF rs.usersInWaitList.isArray
    THEN Range(UserIDsOf(rs.usersInWaitList.elems))
    ELSE Range(rs.usersInWaitList.userIDs)

\* C17: after a userLeave event for userID u is handled, no entry with userID u
\* remains in usersInRoom or in usersInWaitList, whatever produced the wait
\* list; a userLeave for a user in neither changes nothing.
C17_UserLeaveRemoves ==
    [][\A id \in UserIDs :
        (UserLeaveEvent(id) /\ phase = "synced")
            => /\ id \notin Range(RoomIDs(roomState'))
               /\ id \notin WaitListIDs(roomState')
               /\ (id \notin Range(RoomIDs(roomState)) /\ id \notin WaitListIDs(roomState))
                    => roomState' = roomState]_vars

\* C18: handling an advance event replaces usersInWaitList with the event's
\* wait-list snapshot and puts exactly one new entry at index 0 of playHistory,
\* with the event's media, start date and incoming performer and empty woots,
\* mehs and grabs; the earlier entries follow unchanged.
C18_AdvanceRecordsPlay ==
    [][\A dj \in UserIDs : \A wl \in DistinctSeqs(UserIDs \ {dj}) :
        (AdvancePlayEvent(dj, wl) /\ TRACKER \in Range(eventHandlers[ADVANCE]))
            => /\ roomState'.usersInWaitList.isArray
               /\ UserIDsOf(roomState'.usersInWaitList.elems) = <<dj>> \o wl
               /\ \A i \in 1..Len(roomState'.usersInWaitList.elems) :
                    roomState'.usersInWaitList.elems[i].username
                        = Username(roomState'.usersInWaitList.elems[i].userID)
               /\ Tail(roomState'.playHistory) = roomState.playHistory
               /\ Head(roomState'.playHistory) =
                    [media |-> upMedia',
                     startDate |-> 1000 * PlayStartTime(upMedia'),
                     user |-> [userID |-> dj, username |-> Username(dj)],
                     votes |-> [isNull |-> FALSE, grabs |-> <<>>, mehs |-> <<>>,
                                woots |-> <<>>],
                     score |-> FALSE]
               /\ roomState'.chatHistory = roomState.chatHistory
               /\ roomState'.usersInRoom = roomState.usersInRoom]_vars

\* C18 witness: after startup an advance event with a DJ and a waiting user was
\* handled on top of an earlier live play
C18_Witness ==
    /\ phase = "synced"
    /\ last.kind = ADVANCE /\ last.phase = "synced" /\ ~last.threw
    /\ TRACKER \in Range(last.invoked)
    /\ Len(roomState.playHistory) >= 2
    /\ roomState.playHistory[1].media = upMedia
    /\ ~roomState.playHistory[2].votes.isNull
    /\ Len(roomState.usersInWaitList.elems) = 2

\* C19: every playHistory entry made from a live advance event or synthesized
\* at startup for the play in progress (the plays the model numbers from 1)
\* has non-null votes, and every entry recovered from the historical query
\* (numbered below 0, carrying a score) has votes = null.
C19_VotesNullOnlyForHistory ==
    \A i \in 1..Len(roomState.playHistory) :
        LET play == roomState.playHistory[i]
        IN  /\ play.media > 0 => (~play.votes.isNull /\ ~play.score)
            /\ play.media < 0 => (play.votes.isNull /\ play.score)
            /\ play.votes.isNull =>
                    (play.votes.woots = <<>> /\ play.votes.mehs = <<>>
                        /\ play.votes.grabs = <<>>)

\* C19 witness: a live entry in front of the entry synthesized at startup in
\* front of an entry of the historical query
C19_Witness ==
    /\ phase = "synced"
    /\ Len(roomState.playHistory) = 3
    /\ roomState.playHistory[1].media = 2 /\ ~roomState.playHistory[1].votes.isNull
    /\ roomState.playHistory[2].media = 1 /\ ~roomState.playHistory[2].votes.isNull
    /\ roomState.playHistory[3].media < 0 /\ roomState.playHistory[3].votes.isNull

\* C20: after startup synchronization (the history callback has returned and
\* no event has been dispatched since) usersInRoom holds one User per entry of
\* the roster snapshot, and usersInWaitList is the current performer followed
\* by the upstream wait list in its order.
C20_StartupRosterAndWaitList ==
    (phase = "synced" /\ last.phase # "synced") =>
        /\ RoomIDs(roomState) = Ascending(upUsers)
        /\ roomState.usersInWaitList.isArray
        /\ UserIDsOf(roomState.usersInWaitList.elems)
                = (IF upDJ = 0 THEN <<>> ELSE <<upDJ>>) \o upWaitList


\* C21: when the history query's callback completes, playHistory becomes the
\* entries it held, followed by one entry per historical record in the order
\* the query returned them, and preceded by one more entry at index 0 exactly
\* when upstream reports both a performer and a media item; that entry's woots,
\* mehs and grabs hold exactly the roster users flagged vote 1, vote -1, grab
FlaggedIDs(list) ==
    {id \in upUsers : CASE list = "woots" -> upVotes[id] = 1
                         [] list = "mehs" -> upVotes[id] = -1
                         [] list = "grabs" -> id \in upGrabs}

IsCurrentPlay(play) ==
    /\ play.media = upMedia
    /\ play.user.userID = upDJ
    /\ play.votes.isNull = FALSE
    /\ \A list \in {"woots", "mehs", "grabs"} :
        /\ Range(play.votes[list]) = FlaggedIDs(list)
        /\ NoDuplicates(play.votes[list])

IsHistoryPlay(play, i) ==
    /\ play.media = HistoryRecord(i).media
    /\ play.user.userID = HistoryRecord(i).user.id
    /\ play.score = TRUE

C21_StartupPlayHistory ==
    [][\A n \in 0..MaxLongHistory :
        (HistoryCallbackOf(n) /\ phase' = "synced") =>
            LET before == roomState.playHistory
                after == roomState'.playHistory
                extra == IF upMedia # 0 /\ upDJ # 0 THEN 1 ELSE 0
            IN  /\ Len(after) = extra + Len(before) + n
                /\ extra = 1 => IsCurrentPlay(after[1])
                /\ \A i \in 1..Len(before) : after[extra + i] = before[i]
                /\ \A i \in 1..n :
                    IsHistoryPlay(after[extra + Len(before) + i], i)]_vars

C21_Witness ==
    /\ phase = "synced"
    /\ last.kind = "none"
    /\ Len(roomState.playHistory) = 3
    /\ roomState.playHistory[1].votes.woots = <<1>>
    /\ roomState.playHistory[1].votes.mehs = <<2>>
    /\ roomState.playHistory[1].votes.grabs = <<1, 2>>
    /\ roomState.playHistory[2].media = HistoryRecord(1).media
    /\ roomState.playHistory[3].media = HistoryRecord(2).media
    /\ HistoryRecord(1) # HistoryRecord(2)

\* a raw event whose translation is not null reaches its dispatcher
TranslatedEvent ==
    \/ UserJoin
    \/ UserLeave
    \/ AdvancePlay
    \/ DjListUpdate
    \/ ModRemoveDJ
    \/ UserUpdate

\* C22: a raw event that is not suppressed has every listener registered for
\* its kind invoked exactly once, in registration order, and no other listener.
C22_EveryListenerInOrder ==
    [][TranslatedEvent => last'.invoked = eventHandlers[last'.kind]]_vars

\* C23: an advance event with no performer and no media, for which the
\* translator returns null, invokes no listener and leaves the room state as
\* it was.
C23_SuppressedEventIsDropped ==
    [][AdvanceSilence => (last'.invoked = <<>> /\ roomState' = roomState)]_vars

\* C23 witness: after startup, with the tracker's handler and a plugin listener
\* registered for advance events, a suppressed advance has been dispatched
C23_Witness ==
    /\ last.kind = ADVANCE
    /\ last.phase = "synced"
    /\ Len(eventHandlers[ADVANCE]) = 2
    /\ last.invoked = <<>>
    /\ roomState.playHistory # <<>>

\* the command modules the spec has fire for the event the router handled: the
\* trigger set holds the keyword, lower-cased when commands are not case
\* sensitive, and the sender's rank is not below the module's minimum role
Keyword == IF areCommandsCaseSensitive THEN commandCalls.event.command
           ELSE toLowerCase(commandCalls.event.command)

Triggered(i) == Keyword \in commands[i].triggers

Permitted(i) ==
    \/ commands[i].minimumRole = NoRole
    \/ commandCalls.event.userRole.level >= commands[i].minimumRole

CallsOf(i, callback) ==
    Cardinality({j \in 1..Len(commandCalls.calls) :
                    commandCalls.calls[j] = [command |-> i, callback |-> callback]})

\* C24: of a command event the router handled, every command module whose
\* triggers hold the keyword and whose role requirement the sender meets has its
\* handler called exactly once, in registration order, and no other module's
\* handler is called.
C24_AllMatchingCommandsFire ==
    commandCalls.event # NullEvent =>
        LET handled == SelectSeq(commandCalls.calls, LAMBDA c : c.callback = "handler")
        IN  /\ \A i \in 1..Len(commands) :
                CallsOf(i, "handler") = IF Triggered(i) /\ Permitted(i) THEN 1 ELSE 0
            /\ \A j, k \in 1..Len(handled) :
                j < k => handled[j].command < handled[k].command

\* C24 witness: two modules share the trigger of the command and both fired
C24_Witness ==
    /\ commandCalls.event # NullEvent
    /\ Len(commands) = 2
    /\ commandCalls.calls = <<[command |-> 1, callback |-> "handler"],
                              [command |-> 2, callback |-> "handler"]>>
    /\ commandCalls.event.command = "Help"
    /\ ~areCommandsCaseSensitive

\* C25: a module whose minimumRole is above the sender's rank never has its
\* handler called for the command, and its insufficient-permissions callback is
\* called once when it has one; a module without minimumRole, or whose
\* minimumRole the sender's rank reaches, has its handler called.
C25_RoleGate ==
    commandCalls.event # NullEvent =>
        \A i \in 1..Len(commands) :
            Triggered(i) =>
                IF Permitted(i)
                THEN /\ CallsOf(i, "handler") = 1
                     /\ CallsOf(i, "insufficientPermissionsHandler") = 0
                ELSE /\ CallsOf(i, "handler") = 0
                     /\ CallsOf(i, "insufficientPermissionsHandler") =
                            IF commands[i].insufficientPermissionsHandler THEN 1 ELSE 0

\* C25 witness: a bouncer's command reached a module that asks for a bouncer,
\* after a module without a role; and a command of a user below the role was
\* answered with the insufficient-permissions callback
C25_Witness ==
    /\ commandCalls.event # NullEvent
    /\ Len(commands) = 2
    /\ commands[1].minimumRole = BOUNCER
    /\ commands[2].minimumRole = BOUNCER
    /\ commandCalls.event.userRole.level = 0
    /\ commandCalls.calls = <<[command |-> 2, callback |-> "insufficientPermissionsHandler"]>>
    /\ Triggered(1)

\* C26: a call of Bot.on for a kind of the Event enum with a callback that is
\* not a function throws, and leaves every handler list as it was.
C26_NonFunctionHandlerRejected ==
    [][\A eventName \in RegistrableNames \cap Event :
        BotOnCall(eventName, NOT_A_FUNCTION)
            => (registration'.threw /\ eventHandlers' = eventHandlers)]_vars

\* C27: a call of Bot.on with a name that is not in the Event enum does not
\* throw, logs, and leaves every handler list as it was.
C27_UnknownKindIgnored ==
    [][\A eventName \in RegistrableNames \ Event :
        \A callback \in {PLUGIN, NOT_A_FUNCTION} :
            BotOnCall(eventName, callback)
                => /\ ~registration'.threw
                   /\ registration'.logged # <<>>
                   /\ eventHandlers' = eventHandlers]_vars

\* C28: a request of one of the six wrapped actions, or a ban, that was queued
\* and that the upstream service then failed, has had the caller's callback
\* called with false and never with a report of success; the Bot method did
\* not throw.
C28_FailureReportedFalsy ==
    \A i \in 1..Len(requests) :
        (requests[i].callback /\ requests[i].wasQueued /\ requests[i].outcome = FAILED)
            => /\ ~requests[i].threw
               /\ requests[i].calls = <<CalledFalse>>

C30_UnknownChatDeleteWarned ==
    [][\A c \in 1..MaxChats : \A mod \in UserIDs :
        (/\ ChatDeleteEvent(c, mod)
         /\ TRACKER \in Range(last'.invoked)
         /\ \A i \in 1..Len(roomState.chatHistory) : roomState.chatHistory[i].chatID # c)
        => /\ roomState' = roomState
           /\ onChatDeleteLogs(translateChatDeleteEvent([c |-> c, mi |-> mod]),
                               roomState) = <<"warn">>]_vars

\* C31: when StateTracker.init is called without an onComplete, the history
\* callback populates the room state and ends without throwing.
C31_OnCompleteOptional ==
    [][\A n \in 0..MaxLongHistory :
        (HistoryCallbackOf(n) /\ onComplete = UNDEFINED /\ roomState.usersInWaitList.isArray)
            => phase' # "crashed"]_vars

\* C32: of a chat payload that has its raw, from and message fields, the
\* translation does not throw, and the type is COMMAND for a message that
\* begins with "!", else MESSAGE, EMOTE, MESSAGE for the upstream types message,
\* emote, mention, and a ChatType for any other upstream type.
C32_ChatClassification ==
    (/\ translation.kind = CHAT
     /\ translation.event.raw /\ translation.event.from
     /\ translation.event.message # "absent")
    => /\ translation.outcome # THROWS
       /\ translateChatType(translation.event) =
            IF translation.event.message = "!command" THEN COMMAND
            ELSE IF translation.event.type = "emote" THEN EMOTE
            ELSE MESSAGE

\* the rank and name the spec gives each upstream role number
RoleNames == <<"none", "residentDj", "bouncer", "manager", "cohost", "host">>

RoleIsTranslated ==
    (translation.kind = CHAT_COMMAND /\ translation.event.from)
        => LET code == translation.event.role
           IN  translateRole(code) =
                   IF code \in 0..5 THEN [name |-> RoleNames[code + 1], level |-> code]
                   ELSE [name |-> "none", level |-> 0]

\* C33: the role numbers 0..5 of a command payload translate to NONE,
\* RESIDENT_DJ, BOUNCER, MANAGER, COHOST, HOST with ranks 0..5 and log nothing;
\* any other number translates to NONE and logs one warning.
C33_RoleTranslation ==
    /\ RoleIsTranslated
    /\ (translation.kind = CHAT_COMMAND /\ translation.event.from)
        => translateRoleLogs(translation.event.role) =
                IF translation.event.role \in 0..5 THEN <<>> ELSE <<"warn">>

\* C33 as the code has it: the same translation, and a number outside 0..5
\* logs one message at error level.
C33_RoleTranslationLogsError ==
    /\ RoleIsTranslated
    /\ (translation.kind = CHAT_COMMAND /\ translation.event.from)
        => translateRoleLogs(translation.event.role) =
                IF translation.event.role \in 0..5 THEN <<>> ELSE <<"error">>

\* C33 witness: a command payload with a role number plug.dj does not define
\* has been translated
C33_Witness ==
    /\ translation.kind = CHAT_COMMAND
    /\ translation.event.from
    /\ translation.event.role = 7
    /\ translation.outcome = RETURNS_VALUE

\* C34: a modBan payload's duration code h, d, f translates to an hour, a day,
\* forever without logging, and any other code to the default with one error
\* log; a modMute payload's reason 1..5 and duration code s, d, l translate
\* through the tables without logging, and any other reason or code gives
\* "violating community rules" or 30 minutes with one error log each.
C34_ModerationCodeFallback ==
    /\ translation.kind = MODERATE_BAN =>
        /\ translateModBanEvent(translation.event).duration \in BanDuration
        /\ translateModBanEventLogs(translation.event) =
                IF translation.event.d \in {"h", "d", "f"} THEN <<>> ELSE <<"error">>
    /\ translation.kind = MODERATE_MUTE =>
        LET event == translation.event
            obj == translateModMuteEvent(event)
        IN  /\ event.r \notin 1..5 => obj.reason = "Violating community rules"
            /\ event.d \notin {"s", "d", "l"} => obj.muteDurationInSeconds = 1800
            /\ Len(translateModMuteEventLogs(event)) =
                    (IF event.r \in 1..5 THEN 0 ELSE 1)
                        + (IF event.d \in {"s", "d", "l"} THEN 0 ELSE 1)

\* C35: once startup synchronization has completed, playHistory[0] exists and
\* has non-null votes, also when nothing was playing at startup, so that onGrab
\* and onVote handle a grab or a vote of any user without throwing.
C35_GrabAndVoteNeverThrow ==
    phase = "synced" =>
        /\ HasCurrentVotes(roomState)
        /\ \A id \in UserIDs :
            /\ ~onGrab(translateGrabEvent(id), roomState).threw
            /\ \A v \in {1, -1} :
                ~onVote(translateVoteEvent([i |-> id, v |-> v]), roomState).threw

\* C36: once startup synchronization has completed, with or without a performer
\* at that time, usersInWaitList holds User records only, no null in the place
\* of a missing performer, so that a search of the wait list by userID and the
\* userLeave handler complete without throwing.
C36_NoNullInWaitList ==
    phase = "synced" =>
        /\ \A i \in 1..Len(roomState.usersInWaitList.elems) :
                roomState.usersInWaitList.elems[i] # NullUser
        /\ \A id \in UserIDs :
            /\ ~_findUserIndex(roomState.usersInWaitList.elems, id).threw
            /\ ~onUserLeave(translateUserLeaveEvent(RawUser(id)), roomState).threw

\* a step in which the registry is kept, a modRemoveDJ event with a listener
\* ends in a throw, a throw comes from the last listener invoked, the tracker,
\* and without a throw every registered listener has been invoked
DispatchEndsAtThrow ==
    /\ eventHandlers' = eventHandlers
    /\ last'.kind \in Event
    /\ LET handlers == eventHandlers[last'.kind]
       IN  /\ (last'.kind = MODERATE_REMOVE_DJ /\ handlers # <<>>) => last'.threw
           /\ last'.threw =>
                \E n \in 1..Len(handlers) :
                    /\ last'.invoked = SubSeq(handlers, 1, n)
                    /\ handlers[n] = TRACKER
           /\ ~last'.threw => last'.invoked = handlers

\* C37: when a listener throws during a dispatch (the tracker's handler of
\* modRemoveDJ does on every event) the exception leaves the dispatcher, the
\* listeners registered after the one that threw are not invoked for that
\* event, and the listener registry is unchanged; a later dispatch in which
\* nothing throws invokes every registered listener. Stated contrapositively:
\* a step that is not such a dispatch is no dispatch of a translated event.
C37_ThrowEndsDispatchOnly ==
    [][~DispatchEndsAtThrow => ~TranslatedEvent]_vars

\* C37 witness: the tracker's handler threw in the last dispatch and the plugin
\* listener registered after it, still registered, was not invoked
C37_Witness ==
    /\ phase = "synced"
    /\ last.kind = MODERATE_REMOVE_DJ
    /\ last.threw
    /\ last.invoked = <<TRACKER>>
    /\ eventHandlers[MODERATE_REMOVE_DJ] = <<TRACKER, PLUGIN>>

\* the indices from x to the end of the maximal run of x's author that holds x
RunBeyond(history, x) ==
    {j \in x..Len(history) : \A k \in x..j : history[k].userID = history[x].userID}

\* the flags isDeleted of a chat history, in order
DeletedFlags(history) == [i \in 1..Len(history) |-> history[i].isDeleted]

\* the flags after a deletion whose cascade goes on from the named entry to the
\* first entry of a different user
FlagsOfFullCascade(history, c) ==
    [i \in 1..Len(history) |->
        \/ history[i].isDeleted
        \/ ChatIndex(history, c) > 0 /\ i \in RunBeyond(history, ChatIndex(history, c))]

\* C38: within each maximal run of consecutive chatHistory entries of one user
\* no soft-deleted entry is followed at a higher index by a non-deleted entry
\* of the run; so a chatDelete, whose cascade halts at the first entry of the
\* author already deleted, marks the entries a cascade up to the first entry of
\* a different user would mark.
C38_DeletedEntriesCloseTheRun ==
    LET history == roomState.chatHistory
    IN  /\ \A i \in 1..Len(history) : \A j \in RunBeyond(history, i) :
                history[i].isDeleted => history[j].isDeleted
        /\ \A c \in 1..MaxChats : \A mod \in UserIDs :
                DeletedFlags(onChatDelete(translateChatDeleteEvent([c |-> c, mi |-> mod]),
                                          roomState).rs.chatHistory)
                    = FlagsOfFullCascade(history, c)

\* C38 witness: a run of three entries of one user, the oldest soft-deleted by
\* one moderator and the one before it later by another, whose cascade halted
\* at the oldest; the newest is not deleted
C38_Witness ==
    /\ phase = "synced"
    /\ last.kind = CHAT /\ ~last.threw
    /\ Len(roomState.chatHistory) >= 3
    /\ roomState.chatHistory[1].userID = roomState.chatHistory[3].userID
    /\ roomState.chatHistory[2].userID = roomState.chatHistory[3].userID
    /\ ~roomState.chatHistory[1].isDeleted
    /\ roomState.chatHistory[2].isDeleted /\ roomState.chatHistory[2].deletedByUserID = 1
    /\ roomState.chatHistory[3].isDeleted /\ roomState.chatHistory[3].deletedByUserID = 2

\* C39: once an entry of chatHistory is soft-deleted, no later chatDelete event
\* changes its deletedByUserID, neither one that names its chat ID again nor
\* the cascade of a deletion of a neighbouring entry by another moderator.
C39_DeletionRecordKept ==
    [][\A i \in 1..Len(roomState.chatHistory) :
        (ChatDelete /\ roomState.chatHistory[i].isDeleted)
            => roomState'.chatHistory[i].deletedByUserID
                    = roomState.chatHistory[i].deletedByUserID]_vars

\* the plays behind the front of playHistory, and the front but for its votes
OlderPlaysKept(before, after) ==
    /\ Len(after) = Len(before)
    /\ \A i \in 2..Len(before) : after[i] = before[i]
    /\ before # <<>> => after[1] = [before[1] EXCEPT !.votes = after[1].votes]

\* C40: each handler of the state tracker changes only its own part of the
\* room state: chat and chatDelete only chatHistory; vote and grab only the
\* votes of playHistory[0], never those of an older play; userJoin only
\* usersInRoom; djListUpdate and modRemoveDJ only usersInWaitList; and an event
\* of a kind the tracker does not subscribe to (userUpdate) changes nothing.
C40_HandlersKeepToTheirPart ==
    [][/\ ((\E id \in UserIDs : ChatEvent(id)) \/ ChatDelete) =>
            /\ roomState'.playHistory = roomState.playHistory
            /\ roomState'.usersInRoom = roomState.usersInRoom
            /\ roomState'.usersInWaitList = roomState.usersInWaitList
       /\ (Vote \/ Grab) =>
            /\ roomState'.chatHistory = roomState.chatHistory
            /\ roomState'.usersInRoom = roomState.usersInRoom
            /\ roomState'.usersInWaitList = roomState.usersInWaitList
            /\ OlderPlaysKept(roomState.playHistory, roomState'.playHistory)
       /\ UserJoin =>
            /\ roomState'.chatHistory = roomState.chatHistory
            /\ roomState'.playHistory = roomState.playHistory
            /\ roomState'.usersInWaitList = roomState.usersInWaitList
       /\ (DjListUpdate \/ ModRemoveDJ) =>
            /\ roomState'.chatHistory = roomState.chatHistory
            /\ roomState'.playHistory = roomState.playHistory
            /\ roomState'.usersInRoom = roomState.usersInRoom
       /\ UserUpdate => roomState' = roomState]_vars

\* C40 witness: after startup every part of the room state is populated, the
\* play before the one in progress has votes of its own, and a vote has just
\* been handled
C40_Witness ==
    /\ phase = "synced"
    /\ last.kind = VOTE /\ last.phase = "synced" /\ ~last.threw
    /\ roomState.chatHistory # <<>>
    /\ Len(roomState.usersInRoom) = 2
    /\ Len(roomState.playHistory) >= 2
    /\ roomState.playHistory[1].votes.woots # <<>>
    /\ roomState.playHistory[2].votes.mehs # <<>>
    /\ roomState.playHistory[2].votes.grabs # <<>>
====
